---- MODULE Spec2Model ----
(***************************************************************************)
(* Creator-matching service: the dependency adapters (Pinecone, OpenAI,    *)
(* Bedrock) with their circuit breaker and retry loop, and the POST        *)
(* /matches pipeline of the matching service built on top of them.         *)
(*                                                                         *)
(* JavaScript runs each handler to its next await without interruption, so *)
(* one action is one such run: from the resumption of an async function to *)
(* the next point where it waits on a remote reply or a timer.             *)
(***************************************************************************)
EXTENDS Integers, Sequences, FiniteSets, TLC

(***************************************************************************)
(* Program constants                                                       *)
(***************************************************************************)
MaxRetries == 3
RetryDelay == 1000
FailureThreshold == 5
ResetTimeout == 30000
\* CACHE_TTL of the matching service
CACHE_TTL == 300000
\* rankMatches(scoredMatches).slice(0, 3)
TopMatches == 3

(***************************************************************************)
(* Bounds of the model                                                     *)
(***************************************************************************)
\* concurrent async calls (adapter calls or match requests) in flight
NumProcs == 2
\* concurrent callers of ServiceManager.initialize() and gracefulShutdown(),
\* and of the public operations of an adapter that is not connected
NumCallers == 2
\* createIndex requests sent over a behaviour
MaxCreates == 3
\* texts passed to one generateEmbeddings() call
MaxTexts == 4
\* the options the ConnectionPool is constructed with
maxConnections == 2
minConnections == 1
\* callers of ConnectionPool.acquire()
NumAcquirers == 2
\* connections the connectionFactory makes before it only fails
MaxMade == 4
\* processQueue() calls waiting at once for a connection to be created; no
\* acquire() or release() begins that would make them more
MaxCreating == 2
\* no embedding call begins that would bring the requests Bedrock has not
\* answered above this number
MaxInFlight == 7
MaxRequests == 1
\* the clock Date.now() advances at most this many times
MaxTicks == 2
\* failureCount is not counted past this value (it only matters up to the
\* threshold and a few failures beyond it)
MaxFailureCount == 6

\* one clock step: the reset timeout, so that "exactly resetTimeout" (one
\* step) and "more than resetTimeout" (two steps) are both reached
TickMs == ResetTimeout
MaxTime == MaxTicks * TickMs

Procs == 1..NumProcs
Requests == 1..MaxRequests

\* this.lastFailureTime = null
NullTime == 0 - 1

(***************************************************************************)
(* The three adapter singletons held by ServiceManager.services            *)
(***************************************************************************)
Deps == {"pinecone", "openai", "bedrock"}

VectorOps == {"upsertVectors", "queryVectors", "deleteVectors", "getIndexStats"}
AIOps == {"generateEmbedding", "generateCompletion"}

OpsOf(d) == IF d = "pinecone" THEN VectorOps ELSE AIOps

\* what one invocation of the remote operation can end in, besides success:
\* a transport/5xx error, a rate-limit (429 / ThrottlingException) error, or
\* an error the adapters classify as non-retryable (4xx, validation, ...)
ErrorKinds == {"retryable", "throttled", "fatal"}

VARIABLES
    services,     \* per adapter: isConnected, circuitBreakerState, failureCount, lastFailureTime
    now,          \* Date.now()
    proc,         \* the async calls in progress
    streak,       \* history: consecutive terminal failures per adapter since it was CLOSED with failureCount 0
    aiProvider,   \* ServiceManager.aiProvider: the adapter embeddings and completions go to
    startup,      \* the initialize() calls serviceManager.initialize() waits for
    servicesInitialized,  \* matching service: set once serviceManager.initialize() resolved
    creatorCache,         \* matching service: the catalog snapshot, or null
    lastCacheUpdate,      \* matching service: when creatorCache was loaded
    env,          \* creators.json and process.env.ASSIGNMENT_SERVICE_URL
    retryLoop,    \* one run of executeWithRetry(), with the delays it slept
    ranking,      \* one call of rankMatches(): its argument and its result
    scoring,      \* one call of calculateMatch(): its arguments and its results
    monitor,      \* HealthMonitor.services: lastStatus of each registered service
    manager,      \* ServiceManager: initialized, initializationPromise; HealthMonitor.isMonitoring
    indexing,     \* the Pinecone index and the initialize() calls that look for it
    embedding,    \* the embedding requests Bedrock has not answered yet
    connPool      \* one ConnectionPool: pool, waitingQueue and its pending promises

serverVars == <<aiProvider, startup, servicesInitialized, creatorCache, lastCacheUpdate, env>>

\* the retry loop, the ranker and the scorer exercised on their own, and
\* the health monitor, which no request handler reads or writes
unitVars == <<retryLoop, ranking, scoring, monitor, manager, indexing, embedding, connPool>>

\* the service manager, the index, the embedding requests and the pool
asyncVars == <<manager, indexing, embedding, connPool>>

vars == <<services, now, proc, streak, aiProvider, startup, servicesInitialized,
          creatorCache, lastCacheUpdate, env, retryLoop, ranking, scoring, monitor,
          manager, indexing, embedding, connPool>>

\* the constructor's field values
NewService ==
    [isConnected |-> FALSE,
     circuitBreakerState |-> "CLOSED",
     failureCount |-> 0,
     lastFailureTime |-> NullTime]

\* req.body.assignment is undefined
NoAssignment ==
    [present |-> FALSE, hasTopic |-> FALSE, hasKeyTakeaway |-> FALSE,
     hasAdditionalContext |-> FALSE,
     creatorNiches |-> <<>>, creatorValues |-> <<>>,
     hasTargetAudience |-> FALSE, locale |-> "", demographic |-> <<>>,
     toneStyle |-> ""]

\* nothing sent yet
NoResponse ==
    [status |-> 0, matches |-> <<>>, reasoning |-> "none", isFallback |-> FALSE]

\* creatorCache = null
NullCache == [present |-> FALSE, creators |-> <<>>]

\* an async call: its position (pc), the adapter call it is in (dep, attempt,
\* outcome), the locals of the POST /matches handler, and what is recorded
\* about it for the properties: admittedIn, recorded, initRemote and
\* startedOpen about the adapter call; queryStartedOpen, queryReached,
\* vectorOutcome and completionOutcome about how the calls of the request
\* went; persistOutcome about the write-back ("none": not attempted);
\* catalog, the catalog the request scored against
IdleProc ==
    [kind |-> "none", pc |-> "idle", dep |-> "none",
     attempt |-> 0, admittedIn |-> "none",
     outcome |-> "none", recorded |-> 0, initRemote |-> 0,
     startedOpen |-> FALSE,
     stage |-> "none", assignment |-> NoAssignment, assignmentId |-> FALSE,
     candidates |-> <<>>, isFallback |-> FALSE, rankedMatches |-> <<>>,
     reasoning |-> "none", readStartedAt |-> 0,
     queryStartedOpen |-> FALSE, queryReached |-> FALSE,
     vectorOutcome |-> "none", completionOutcome |-> "none",
     persistOutcome |-> "none",
     catalog |-> NullCache,
     response |-> NoResponse]

(***************************************************************************)
(* The circuit breaker, as pure functions of one adapter's fields          *)
(***************************************************************************)

\* handleFailure()
handleFailure(s, t) ==
    LET fc == s.failureCount + 1
    IN  [s EXCEPT !.failureCount = fc,
                  !.lastFailureTime = t,
                  !.circuitBreakerState =
                      IF fc >= FailureThreshold THEN "OPEN" ELSE @]

\* the tail of initialize(): the connection is up
initializeOk(s) ==
    [s EXCEPT !.isConnected = TRUE,
              !.circuitBreakerState = "CLOSED",
              !.failureCount = 0]

\* disconnect()
disconnect(s) == [s EXCEPT !.isConnected = FALSE]

\* the head of executeWithCircuitBreaker(): the OPEN check.
\* admitted = FALSE is the thrown 'Circuit breaker is OPEN' error.
breakerEntry(s, t) ==
    IF s.circuitBreakerState = "OPEN"
    THEN IF t - s.lastFailureTime > ResetTimeout
         THEN [svc |-> [s EXCEPT !.circuitBreakerState = "HALF_OPEN"],
               admitted |-> TRUE]
         ELSE [svc |-> s, admitted |-> FALSE]
    ELSE [svc |-> s, admitted |-> TRUE]

\* executeWithCircuitBreaker() after executeWithRetry() returned a result
breakerOnSuccess(s) ==
    IF s.circuitBreakerState = "HALF_OPEN"
    THEN [s EXCEPT !.circuitBreakerState = "CLOSED", !.failureCount = 0]
    ELSE s

\* executeWithCircuitBreaker()'s catch: executeWithRetry() threw
breakerOnError(s, t) == handleFailure(s, t)

\* a retry loop that reported every failed attempt to the breaker
breakerOnRetryCounting(s, t) == handleFailure(s, t)

\* what a failed attempt that is going to be retried does to the breaker:
\* nothing, the retry loop does not touch it
breakerOnRetry(s, t) == s

\* isRetryableError(), of OpenAIService and of BedrockService
isRetryableError(d, err) == err \in {"retryable", "throttled"}

\* a loop whose bound lets one more attempt through
retryAgainOnceMore(d, attempt, err) ==
    IF d = "pinecone"
    THEN attempt <= MaxRetries
    ELSE attempt <= MaxRetries /\ isRetryableError(d, err)

\* executeWithRetry()'s catch block: TRUE when the loop sleeps and goes on
\* to another attempt, FALSE when the error leaves the loop.
\* Pinecone retries every error; OpenAI and Bedrock sleep on a throttling
\* error, then on a retryable one, and break on any other.
retryAgain(d, attempt, err) ==
    IF d = "pinecone"
    THEN attempt < MaxRetries
    ELSE attempt < MaxRetries /\ isRetryableError(d, err)

\* whether initialize() waits on the remote provider: Pinecone lists (and
\* creates) the index, OpenAI lists the models, Bedrock only builds a client
initializeIsRemote(d) == d # "bedrock"

\* the breaker would reject a call made now
OpenWindow(s, t) ==
    s.circuitBreakerState = "OPEN" /\ ~(t - s.lastFailureTime > ResetTimeout)

(***************************************************************************)
(* The matcher (services/matching-service/utils/matcher.js)                *)
(*                                                                         *)
(* Scores are kept in units of 1/10000 (the four decimals of toFixed(4)),  *)
(* cosine scores in units of 1/100; a quotient is rounded to the nearest   *)
(* unit where JavaScript computes in floating point.                       *)
(***************************************************************************)
Scale == 10000

\* String.prototype.toLowerCase() on the tags and codes the model uses
toLowerCase(t) ==
    CASE t = "DIY" -> "diy"
      [] t = "Finance" -> "finance"
      [] t = "Home Improvement" -> "home improvement"
      [] t = "Education" -> "education"
      [] t = "CA" -> "ca"
      [] t = "US" -> "us"
      [] t = "Casual" -> "casual"
      [] t = "Sustainability" -> "sustainability"
      [] t = "Homeowners" -> "homeowners"
      [] OTHER -> t

\* String.prototype.includes() on the lower-cased tone words the model uses
includes(text, part) ==
    \/ text = part
    \/ <<text, part>> \in {<<"casual and fun", "casual">>, <<"casual and fun", "fun">>}

RoundDiv(a, b) == (2 * a + b) \div (2 * b)

\* the largest k with k * k <= x, for x > 0 and a start k >= that value:
\* Newton's iteration on the integers. The next iterate is bound as the
\* element of a one-element set, which fixes its value once.
RECURSIVE SqrtSearch(_, _)
SqrtSearch(x, k) ==
    CHOOSE res \in {IF next >= k THEN k ELSE SqrtSearch(x, next) :
                       next \in {(k + x \div k) \div 2}} : TRUE

\* Math.pow(r, 0.5) for r in [0, 1], r and the result in units of 1/Scale:
\* the integer nearest to the square root of r * Scale
sqrtScaled(r) ==
    IF r = 0 THEN 0
    ELSE CHOOSE k \in {IF (lo + 1) * (lo + 1) - r * Scale < r * Scale - lo * lo
                       THEN lo + 1 ELSE lo :
                       lo \in {SqrtSearch(r * Scale, Scale)}} : TRUE

SeqToSet(q) == {q[i] : i \in 1..Len(q)}

\* the positions of the array q whose element is in the set kept:
\* q.filter(x => kept.includes(x)) has that many elements
Hits(q, kept) == {i \in 1..Len(q) : q[i] \in kept}

\* calculateNicheAlignment(assignment, creator): an integer count
calculateNicheAlignment(assignment, creator) ==
    IF Len(assignment.creatorNiches) = 0 THEN 0
    ELSE LET creatorNiches ==
                 {toLowerCase(n) : n \in SeqToSet(creator.primaryNiches)
                                          \cup SeqToSet(creator.secondaryNiches)}
             wanted == [i \in 1..Len(assignment.creatorNiches) |->
                           toLowerCase(assignment.creatorNiches[i])]
         IN  Cardinality(Hits(wanted, creatorNiches))

\* calculateAudienceMatch(assignment, creator), in units of 1/Scale.
\* creator.audienceWords stands for audienceInterests.join(' ') and summary:
\* the lower-case words either of them contains.
calculateAudienceMatch(assignment, creator) ==
    IF ~assignment.hasTargetAudience THEN 0
    ELSE LET locale == assignment.locale
             localeScore ==
                 IF locale # "" /\ creator.region # ""
                       /\ toLowerCase(creator.region) = toLowerCase(locale)
                 THEN 4000 ELSE 0
             words == assignment.demographic
             matched == Cardinality(Hits([i \in 1..Len(words) |-> toLowerCase(words[i])],
                                         creator.audienceWords))
             demographicScore ==
                 IF Len(words) > 0 /\ matched > 0
                 THEN RoundDiv(3000 * matched, Len(words)) ELSE 0
             requestedTone == toLowerCase(assignment.toneStyle)
             toneMatch ==
                 \E tone \in {toLowerCase(x) : x \in SeqToSet(creator.tone)} :
                     includes(tone, requestedTone) \/ includes(requestedTone, tone)
             toneScore ==
                 IF assignment.toneStyle # "" /\ creator.hasEngagementStyle /\ toneMatch
                 THEN 3000 ELSE 0
         IN  localeScore + demographicScore + toneScore

\* calculateValueAlignment(assignment, creator), in units of 1/Scale
calculateValueAlignment(assignment, creator) ==
    IF Len(assignment.creatorValues) = 0 THEN 0
    ELSE LET creatorValues == {toLowerCase(v) : v \in SeqToSet(creator.apparentValues)}
             wanted == [i \in 1..Len(assignment.creatorValues) |->
                           toLowerCase(assignment.creatorValues[i])]
         IN  RoundDiv(Scale * Cardinality(Hits(wanted, creatorValues)),
                      Len(assignment.creatorValues))

Min(a, b) == IF a <= b THEN a ELSE b

\* a score that is not capped
capScoreNot(totalScore) == totalScore

\* Math.min(1, totalScore), in units of 1/Scale
capScore(totalScore) == Min(Scale, totalScore)

\* calculateMatch(assignment, creator, semanticScore): semanticScore in 1/100
calculateMatch(assignment, creator, semanticScore) ==
    LET nicheScore == calculateNicheAlignment(assignment, creator)
        audienceScore == calculateAudienceMatch(assignment, creator)
        valueScore == calculateValueAlignment(assignment, creator)
        normalizedSemanticScore == (semanticScore * 100 + Scale) \div 2
        maxNiches == IF Len(assignment.creatorNiches) = 0 THEN 1
                     ELSE Len(assignment.creatorNiches)
        nicheMatchRatio == RoundDiv(nicheScore * Scale, maxNiches)
        nicheBoost == sqrtScaled(nicheMatchRatio)
        baseScore == RoundDiv(normalizedSemanticScore * 70 + nicheMatchRatio * 20
                                + audienceScore * 5 + valueScore * 5, 100)
        totalScore == RoundDiv(baseScore * (Scale + nicheBoost), Scale)
    IN  [creator |-> creator,
         matchScore |-> capScore(totalScore),
         scoreBreakdown |->
             [semanticSimilarity |-> normalizedSemanticScore,
              nicheAlignment |-> nicheScore,
              audienceMatch |-> audienceScore,
              valueAlignment |-> valueScore,
              nicheBoost |-> nicheBoost]]

\* followerCount || 1
OrOne(n) == IF n = 0 THEN 1 ELSE n

\* breakTie(matchA, matchB): the sign of the returned number
breakTie(matchA, matchB) ==
    LET hA == matchA.creator.heartCount
        fA == OrOne(matchA.creator.followerCount)
        hB == matchB.creator.heartCount
        fB == OrOne(matchB.creator.followerCount)
    IN  IF hA * fB # hB * fA
        THEN (IF hB * fA > hA * fB THEN 1 ELSE 0 - 1)
        ELSE matchB.creator.followerCount - matchA.creator.followerCount

Abs(x) == IF x < 0 THEN 0 - x ELSE x

\* the comparison function rankMatches() hands to Array.prototype.sort:
\* negative when a sorts before b. 0.01 and 0.001 are 100 and 10 units.
compareMatches(a, b) ==
    IF b.scoreBreakdown.nicheAlignment # a.scoreBreakdown.nicheAlignment
    THEN b.scoreBreakdown.nicheAlignment - a.scoreBreakdown.nicheAlignment
    ELSE IF Abs(b.scoreBreakdown.semanticSimilarity
                  - a.scoreBreakdown.semanticSimilarity) > 100
    THEN b.scoreBreakdown.semanticSimilarity - a.scoreBreakdown.semanticSimilarity
    ELSE IF Abs(b.matchScore - a.matchScore) > 10
    THEN b.matchScore - a.matchScore
    ELSE breakTie(a, b)

\* Array.prototype.sort(comparefn) as Node's engine runs it on an array of
\* fewer than 64 elements: the leading run is found (and reversed when it
\* is strictly descending), then every later element is put in place by a
\* binary search among the elements before it. The comparison is not a
\* consistent order (its tolerances are not transitive), so the result of
\* sort() is the result of this algorithm and of no other.

\* the run a[1], a[2], ... of step-wise descending (desc) or non-descending
\* elements reaches position i: the position where it ends
RECURSIVE RunEnd(_, _, _)
RunEnd(a, desc, i) ==
    IF i < Len(a) /\ ((compareMatches(a[i + 1], a[i]) < 0) = desc)
    THEN RunEnd(a, desc, i + 1)
    ELSE i

\* q back to front
Reverse(q) == [i \in 1..Len(q) |-> q[Len(q) + 1 - i]]

\* the array after its leading run is made ascending, and the run's length
CountAndMakeRun(a) ==
    IF Len(a) < 2 THEN [run |-> Len(a), a |-> a]
    ELSE LET desc == compareMatches(a[2], a[1]) < 0
             run == RunEnd(a, desc, 2)
         IN  [run |-> run,
              a |-> IF desc
                    THEN Reverse(SubSeq(a, 1, run)) \o SubSeq(a, run + 1, Len(a))
                    ELSE a]

\* the number of elements of a[1..right] that stay before pivot: bisection
\* between left and right
RECURSIVE BinarySearch(_, _, _, _)
BinarySearch(a, pivot, left, right) ==
    IF left >= right THEN left
    ELSE LET mid == left + ((right - left) \div 2)
         IN  IF compareMatches(pivot, a[mid + 1]) < 0
             THEN BinarySearch(a, pivot, left, mid)
             ELSE BinarySearch(a, pivot, mid + 1, right)

\* a[1..start] is in place; the elements after it are inserted one by one
RECURSIVE BinaryInsertionSort(_, _)
BinaryInsertionSort(a, start) ==
    IF start >= Len(a) THEN a
    ELSE LET pivot == a[start + 1]
             left == BinarySearch(a, pivot, 0, start)
         IN  BinaryInsertionSort(SubSeq(a, 1, left) \o <<pivot>>
                                     \o SubSeq(a, left + 1, start)
                                     \o SubSeq(a, start + 2, Len(a)),
                                 start + 1)

\* a ranking that returns the matches as they came
rankMatchesAsGiven(matches) ==
    matches

\* rankMatches(matches): matches.sort(the comparison)
rankMatches(matches) ==
    LET made == CountAndMakeRun(matches) IN BinaryInsertionSort(made.a, made.run)

\* array.slice(0, n)
Slice(q, n) == SubSeq(q, 1, Min(n, Len(q)))

(***************************************************************************)
(* History of consecutive terminal failures (not program state)            *)
(***************************************************************************)
\* streak[d] is the number of terminally failed calls of adapter d since its
\* breaker was last seen Closed with failureCount 0 by a call that succeeded
\* (or since construction), capped at the threshold; Broken once a call
\* succeeded and left the breaker otherwise; NotTracked where the history is
\* not kept
Broken == 0 - 1
NotTracked == 0 - 2

StreakAfterFailure(n) ==
    IF n < 0 THEN n ELSE IF n < FailureThreshold THEN n + 1 ELSE n

StreakAfterSuccess(s, n) ==
    IF n = NotTracked THEN n
    ELSE IF s.circuitBreakerState = "CLOSED" /\ s.failureCount = 0 THEN 0 ELSE Broken

(***************************************************************************)
(* One adapter call: upsertVectors / queryVectors / getIndexStats /        *)
(* generateEmbedding / generateCompletion                                  *)
(***************************************************************************)

\* return this.executeWithCircuitBreaker(...): the OPEN check, and, when the
\* call is admitted, executeWithRetry()'s first invocation of the operation
EnterBreaker(p, pr) ==
    LET d == pr.dep
        e == breakerEntry(services[d], now)
    IN  /\ services' = [services EXCEPT ![d] = e.svc]
        /\ proc' = [proc EXCEPT ![p] =
                IF e.admitted
                THEN [pr EXCEPT !.pc = "inflight", !.attempt = 1,
                                !.admittedIn = e.svc.circuitBreakerState]
                ELSE [pr EXCEPT !.pc = "returned", !.outcome = "circuitOpen"]]

\* the public operation up to its first await
BeginOp(p, pr) ==
    LET d == pr.dep
        q == [pr EXCEPT !.startedOpen = OpenWindow(services[d], now)]
    IN  IF ~services[d].isConnected
        THEN IF initializeIsRemote(d)
             THEN /\ proc' = [proc EXCEPT ![p] =
                                [q EXCEPT !.pc = "init", !.initRemote = 1]]
                  /\ UNCHANGED services
             ELSE /\ services' = [services EXCEPT ![d] = initializeOk(@)]
                  /\ proc' = [proc EXCEPT ![p] = [q EXCEPT !.pc = "admit"]]
        ELSE EnterBreaker(p, q)

\* a caller invokes public operation op of adapter d directly. The operations
\* differ only in the remote request they wrap, so the call does not keep
\* op; callers are interchangeable, so the lowest free slot takes the call.
StartCall(p, d, op) ==
    /\ proc[p].kind = "none"
    /\ \A q \in Procs : q < p => proc[q].kind # "none"
    /\ op \in OpsOf(d)
    /\ BeginOp(p, [IdleProc EXCEPT !.kind = "call", !.dep = d])
    /\ UNCHANGED <<now, streak, serverVars, unitVars>>

\* initialize(): the remote part succeeded
InitOk(p) ==
    /\ proc[p].pc = "init"
    /\ services' = [services EXCEPT ![proc[p].dep] = initializeOk(@)]
    /\ proc' = [proc EXCEPT ![p].pc = "admit"]
    /\ UNCHANGED <<now, streak, serverVars, unitVars>>

\* initialize(): the remote part threw; the error leaves the public operation
InitFail(p) ==
    LET d == proc[p].dep
    IN  /\ proc[p].pc = "init"
        /\ services[d].failureCount < MaxFailureCount
        /\ services' = [services EXCEPT ![d] = handleFailure(@, now)]
        /\ proc' = [proc EXCEPT ![p].pc = "returned",
                                ![p].outcome = "initError",
                                ![p].recorded = @ + 1]
        /\ streak' = [streak EXCEPT ![d] = StreakAfterFailure(@)]
        /\ UNCHANGED <<now, serverVars, unitVars>>

\* the public operation resumes after await this.initialize()
Admit(p) ==
    /\ proc[p].pc = "admit"
    /\ EnterBreaker(p, proc[p])
    /\ UNCHANGED <<now, streak, serverVars, unitVars>>

\* the remote operation returned a result
AttemptOk(p) ==
    LET d == proc[p].dep
        s == breakerOnSuccess(services[d])
    IN  /\ proc[p].pc = "inflight"
        /\ services' = [services EXCEPT ![d] = s]
        /\ proc' = [proc EXCEPT ![p].pc = "returned", ![p].outcome = "ok"]
        /\ streak' = [streak EXCEPT ![d] = StreakAfterSuccess(s, @)]
        /\ UNCHANGED <<now, serverVars, unitVars>>

\* the remote operation threw an error of kind err. When the loop goes on,
\* the step includes the sleep and the next invocation of the operation:
\* nothing of the adapter is read or written between the catch and that
\* invocation, and the clock may advance while the new attempt is in flight.
AttemptFail(p, err) ==
    LET d == proc[p].dep
    IN  /\ proc[p].pc = "inflight"
        /\ IF retryAgain(d, proc[p].attempt, err)
           THEN /\ services' = [services EXCEPT ![d] = breakerOnRetry(@, now)]
                /\ services'[d].failureCount <= MaxFailureCount
                /\ proc' = [proc EXCEPT ![p].attempt = @ + 1,
                                        ![p].recorded =
                                            @ + (services'[d].failureCount
                                                 - services[d].failureCount)]
                /\ UNCHANGED streak
           ELSE /\ services[d].failureCount < MaxFailureCount
                /\ services' = [services EXCEPT ![d] = breakerOnError(@, now)]
                /\ proc' = [proc EXCEPT ![p].pc = "returned",
                                        ![p].outcome = "error",
                                        ![p].recorded = @ + 1]
                /\ streak' = [streak EXCEPT ![d] = StreakAfterFailure(@)]
        /\ UNCHANGED <<now, serverVars, unitVars>>

\* the direct caller got its result or its error
Return(p) ==
    /\ proc[p].kind = "call"
    /\ proc[p].pc = "returned"
    /\ proc' = [proc EXCEPT ![p] = IdleProc]
    /\ UNCHANGED <<services, now, streak, serverVars, unitVars>>

\* disconnect()
Disconnect(d) ==
    /\ services[d].isConnected
    /\ services' = [services EXCEPT ![d] = disconnect(@)]
    /\ UNCHANGED <<now, proc, streak, serverVars, unitVars>>

\* time passes
Tick ==
    /\ now < MaxTime
    /\ now' = now + TickMs
    /\ UNCHANGED <<services, proc, streak, serverVars, unitVars>>

(***************************************************************************)
(* Data the requests are drawn from                                        *)
(***************************************************************************)
\* a creator profile of creators.json, with the fields the matcher reads
Creator(id, followerCount, heartCount, region, primaryNiches, secondaryNiches, apparentValues, audienceWords, hasEngagementStyle, tone) ==
    [id |-> id, followerCount |-> followerCount, heartCount |-> heartCount,
     region |-> region, primaryNiches |-> primaryNiches,
     secondaryNiches |-> secondaryNiches, apparentValues |-> apparentValues,
     audienceWords |-> audienceWords, hasEngagementStyle |-> hasEngagementStyle,
     tone |-> tone]

CreatorMM ==
    Creator("mm", 1000, 100, "US", <<"Finance">>, <<>>, <<"Education">>,
            {"teen", "investors"}, TRUE, <<"Casual">>)
CreatorMD ==
    Creator("md", 500, 100, "ca", <<"Home Improvement", "DIY">>, <<>>,
            <<"sustainability">>, {"homeowners"}, TRUE, <<"casual and fun">>)
CreatorCC ==
    Creator("cc", 0, 0, "CA", <<"diy">>, <<"finance">>, <<>>, {}, FALSE, <<>>)
CreatorCB ==
    Creator("cb", 2000, 100, "US", <<"cooking">>, <<>>, <<"Education">>,
            {"homeowners"}, TRUE, <<>>)

\* creators.json: the catalog, in the order of its keys
Catalogs ==
    {<<>>,
     <<CreatorMM, CreatorMD>>,
     <<CreatorMM, CreatorMD, CreatorCC, CreatorCB>>}

\* an assignment that asks for niches, values, an audience and a tone
RuleAssignment ==
    [present |-> TRUE, hasTopic |-> TRUE, hasKeyTakeaway |-> TRUE,
     hasAdditionalContext |-> TRUE,
     creatorNiches |-> <<"Home Improvement", "DIY">>,
     creatorValues |-> <<"Sustainability", "Education">>,
     hasTargetAudience |-> TRUE, locale |-> "CA",
     demographic |-> <<"Homeowners">>, toneStyle |-> "casual"]

Bodies == {NoAssignment, RuleAssignment}

\* assignments that lack one of topic, keyTakeaway and additionalContext
IncompleteAssignments ==
    {[RuleAssignment EXCEPT !.hasTopic = FALSE],
     [RuleAssignment EXCEPT !.hasKeyTakeaway = FALSE],
     [RuleAssignment EXCEPT !.hasAdditionalContext = FALSE]}

\* request bodies of every shape
RequestBodies == Bodies \cup IncompleteAssignments

\* searchResults.matches of a vector query; "zz" is in no catalog
CandidateLists ==
    {<<>>,
     <<[id |-> "mm", score |-> 90], [id |-> "md", score |-> 85],
       [id |-> "cc", score |-> 80], [id |-> "cb", score |-> 75]>>,
     <<[id |-> "zz", score |-> 95], [id |-> "cb", score |-> 40],
       [id |-> "mm", score |-> 0 - 20]>>}

(***************************************************************************)
(* POST /matches (services/matching-service/server.js)                     *)
(***************************************************************************)

\* creators[id] is defined
HasCreator(creators, id) == \E i \in 1..Len(creators) : creators[i].id = id

\* creators[id]
CreatorById(creators, id) ==
    creators[CHOOSE i \in 1..Len(creators) : creators[i].id = id]

\* a join that keeps a candidate the catalog does not know, scored against
\* an empty profile
ScoreCandidatesKeepStale(assignment, creators, candidates) ==
    [i \in 1..Len(candidates) |->
        calculateMatch(assignment,
                       IF HasCreator(creators, candidates[i].id)
                       THEN CreatorById(creators, candidates[i].id)
                       ELSE Creator(candidates[i].id, 0, 0, "", <<>>, <<>>, <<>>,
                                    {}, FALSE, <<>>),
                       candidates[i].score)]

\* searchResults.matches.map(match => creators[match.id] ? calculateMatch(...)
\* : null).filter(m => m !== null)
ScoreCandidates(assignment, creators, candidates) ==
    LET known == SelectSeq(candidates, LAMBDA match : HasCreator(creators, match.id))
    IN  [i \in 1..Len(known) |->
            calculateMatch(assignment, CreatorById(creators, known[i].id),
                           known[i].score)]

\* a fallback that scores only the creators the vector query returned
fallbackPoolCandidates(creators, candidates) ==
    SelectSeq(creators,
              LAMBDA c : \E i \in 1..Len(candidates) : candidates[i].id = c.id)

\* the creators the fallback branch scores: Object.values(creators)
fallbackPool(creators, candidates) ==
    creators

\* rankMatches(scoredMatches).slice(0, 3)
topMatches(ranked) ==
    Slice(ranked, TopMatches)

\* step 3 of the handler, "Enrich and score"
scoreMatches(assignment, creators, candidates, isFallback) ==
    IF isFallback
    THEN LET pool == fallbackPool(creators, candidates)
         IN  [i \in 1..Len(pool) |-> calculateMatch(assignment, pool[i], 0)]
    ELSE ScoreCandidates(assignment, creators, candidates)

\* a handler that gives up its matches when generateCompletion() threw
completionFailedDropsMatches(pr) ==
    [pr EXCEPT !.reasoning = "canned", !.rankedMatches = <<>>]

\* the catch around generateCompletion(): the canned reasoning
completionFailed(pr) ==
    [pr EXCEPT !.reasoning = "canned"]

\* a handler that writes back whenever a persistence target is configured
shouldPersistAnyRequest(assignmentId, url) ==
    url

\* step 6: if (assignmentId && process.env.ASSIGNMENT_SERVICE_URL)
shouldPersist(assignmentId, url) ==
    assignmentId /\ url

\* a fresh adapter call made by the handler
NewCall(pr, d, stage) ==
    [pr EXCEPT !.dep = d, !.stage = stage, !.attempt = 0, !.admittedIn = "none",
               !.outcome = "none", !.recorded = 0, !.initRemote = 0,
               !.startedOpen = FALSE]

\* res.status(status).json(...)
Respond(pr, status, matches, reasoning, isFallback) ==
    [pr EXCEPT !.pc = "responded", !.stage = "done",
               !.response = [status |-> status, matches |-> matches,
                             reasoning |-> reasoning, isFallback |-> isFallback]]

\* an empty result that always reports the vector path as healthy
emptyResultNeverFallback(pr) ==
    Respond(pr, 200, <<>>, "nosuitable", FALSE)

\* if (scoredMatches.length === 0): matches [] and the fixed reasoning
emptyResult(pr) ==
    Respond(pr, 200, <<>>, "nosuitable", pr.isFallback)

\* the success response at the end of the handler
RespondSuccess(pr) ==
    Respond(pr, 200, pr.rankedMatches, pr.reasoning, pr.isFallback)

\* steps 3 to 5 with the catalog in hand: score, rank, keep the top three,
\* then ask for the reasoning. scoredMatches and q are bound as the element
\* of a one-element set: each is computed once, as the handler's const is.
ScoreAndRank(p, pr, creators) ==
    \E scoredMatches \in {scoreMatches(pr.assignment, creators, pr.candidates, pr.isFallback)} :
      \E q \in {[pr EXCEPT !.catalog = [present |-> TRUE, creators |-> creators],
                          !.rankedMatches = IF Len(scoredMatches) = 0 THEN <<>>
                                            ELSE topMatches(rankMatches(scoredMatches))]} :
        IF Len(scoredMatches) = 0
        THEN /\ proc' = [proc EXCEPT ![p] = emptyResult(q)]
             /\ UNCHANGED services
        ELSE BeginOp(p, NewCall(q, aiProvider, "complete"))

\* a snapshot that is still served at the moment it is CACHE_TTL old
cacheIsFreshAtExpiry(cache, updated, t) ==
    cache.present /\ t - updated <= CACHE_TTL

\* creatorCache && (now - lastCacheUpdate < CACHE_TTL)
cacheIsFresh(cache, updated, t) ==
    cache.present /\ t - updated < CACHE_TTL

\* loadCreators(), then the rest of the handler up to its next await
LoadCreators(p, pr) ==
    IF cacheIsFresh(creatorCache, lastCacheUpdate, now)
    THEN ScoreAndRank(p, pr, creatorCache.creators)
    ELSE /\ proc' = [proc EXCEPT ![p] =
                        [pr EXCEPT !.pc = "reading", !.stage = "load",
                                   !.readStartedAt = now]]
         /\ UNCHANGED services

\* a POST /matches request arrives. Of its body, assignmentId is used by the
\* persistence step only and is drawn there.
ReceiveMatch(p, assignment) ==
    /\ proc[p].kind = "none"
    /\ \A q \in Procs : q < p => proc[q].kind # "none"
    /\ LET pr == [IdleProc EXCEPT !.kind = "match", !.assignment = assignment]
       IN  IF ~servicesInitialized
           THEN /\ proc' = [proc EXCEPT ![p] = Respond(pr, 503, <<>>, "none", FALSE)]
                /\ UNCHANGED services
           ELSE IF ~assignment.present
           THEN /\ proc' = [proc EXCEPT ![p] = Respond(pr, 400, <<>>, "none", FALSE)]
                /\ UNCHANGED services
           ELSE BeginOp(p, NewCall(pr, aiProvider, "embed"))
    /\ UNCHANGED <<now, streak, serverVars, unitVars>>

\* serviceManager.generateEmbedding() settled
AfterEmbedding(p) ==
    /\ proc[p].kind = "match" /\ proc[p].stage = "embed" /\ proc[p].pc = "returned"
    /\ IF proc[p].outcome = "ok"
       THEN BeginOp(p, NewCall(proc[p], "pinecone", "query"))
       ELSE LoadCreators(p, [proc[p] EXCEPT !.isFallback = TRUE,
                                            !.vectorOutcome = proc[p].outcome])
    /\ UNCHANGED <<now, streak, serverVars, unitVars>>

\* serviceManager.queryVectors() settled; reply is searchResults.matches
AfterQuery(p, reply) ==
    /\ proc[p].kind = "match" /\ proc[p].stage = "query" /\ proc[p].pc = "returned"
    /\ LET pr == [proc[p] EXCEPT
                     !.vectorOutcome = proc[p].outcome,
                     !.queryStartedOpen = proc[p].startedOpen,
                     !.queryReached = proc[p].attempt > 0]
       IN  IF proc[p].outcome = "ok"
           THEN LoadCreators(p, [pr EXCEPT !.candidates = reply])
           ELSE /\ reply = <<>>
                /\ LoadCreators(p, [pr EXCEPT !.isFallback = TRUE])
    /\ UNCHANGED <<now, streak, serverVars, unitVars>>

\* fs.readFile() and JSON.parse() gave the catalog
ReadOk(p) ==
    /\ proc[p].kind = "match" /\ proc[p].pc = "reading"
    /\ creatorCache' = [present |-> TRUE, creators |-> env.creatorsFile]
    /\ lastCacheUpdate' = proc[p].readStartedAt
    /\ ScoreAndRank(p, proc[p], env.creatorsFile)
    /\ UNCHANGED <<now, streak, aiProvider, startup, servicesInitialized, env, unitVars>>

\* fs.readFile() or JSON.parse() threw: the handler's outer catch answers 500
ReadFail(p) ==
    /\ proc[p].kind = "match" /\ proc[p].pc = "reading"
    /\ proc' = [proc EXCEPT ![p] = Respond(proc[p], 500, <<>>, "none", FALSE)]
    /\ UNCHANGED <<services, now, streak, serverVars, unitVars>>

\* serviceManager.generateCompletion() settled; assignmentId is whether the
\* request body carried one
AfterCompletion(p, assignmentId) ==
    /\ proc[p].kind = "match" /\ proc[p].stage = "complete" /\ proc[p].pc = "returned"
    /\ LET q == [proc[p] EXCEPT !.completionOutcome = proc[p].outcome,
                                !.assignmentId = assignmentId]
           pr == IF q.outcome = "ok"
                 THEN [q EXCEPT !.reasoning = "ai"]
                 ELSE completionFailed(q)
       IN  proc' = [proc EXCEPT ![p] =
                IF shouldPersist(pr.assignmentId, env.ASSIGNMENT_SERVICE_URL)
                THEN [pr EXCEPT !.pc = "fetching", !.stage = "persist"]
                ELSE RespondSuccess(pr)]
    /\ UNCHANGED <<services, now, streak, serverVars, unitVars>>

\* the PATCH to the assignment service settled: 2xx, another status, or an
\* exception; the last two are logged
PersistSettled(p, result) ==
    /\ proc[p].kind = "match" /\ proc[p].pc = "fetching"
    /\ result \in {"ok", "notOk", "throws"}
    /\ proc' = [proc EXCEPT ![p] =
                    RespondSuccess([proc[p] EXCEPT !.persistOutcome = result])]
    /\ UNCHANGED <<services, now, streak, serverVars, unitVars>>

\* the response is out
Finish(p) ==
    /\ proc[p].kind = "match" /\ proc[p].pc = "responded"
    /\ proc' = [proc EXCEPT ![p] = IdleProc]
    /\ UNCHANGED <<services, now, streak, serverVars, unitVars>>

(***************************************************************************)
(* rankMatches() on its own, over lists of matches with near ties          *)
(***************************************************************************)
\* a match as calculateMatch() returns it, with the fields the ranking reads
Match(id, nicheAlignment, semanticSimilarity, matchScore, followerCount, heartCount) ==
    [creator |-> [id |-> id, followerCount |-> followerCount, heartCount |-> heartCount],
     matchScore |-> matchScore,
     scoreBreakdown |-> [semanticSimilarity |-> semanticSimilarity,
                         nicheAlignment |-> nicheAlignment]]

\* matches of one niche count whose semantic similarities step by 0.006 and
\* whose scores step by 0.002 the other way, a match within 0.001 of
\* another's score and of its engagement ratio, a match without followers
\* and a match with two niches. No two values are exactly a tolerance
\* apart, where the rounding of the floating-point difference decides.
MatchPool ==
    {Match("a", 1, 5000, 7040, 1000, 100),
     Match("b", 1, 5060, 7020, 1000, 100),
     Match("c", 1, 5120, 7000, 1000, 100),
     Match("e", 1, 5060, 7025, 500, 50),
     Match("f", 0, 9000, 6000, 0, 0),
     Match("g", 2, 2000, 9000, 10, 5)}

MaxMatches == 4

\* the lists of up to MaxMatches distinct matches of the pool
MatchLists ==
    UNION {{q \in [1..n -> MatchPool] : \A i, j \in 1..n : i # j => q[i] # q[j]} :
              n \in 0..MaxMatches}

\* rankMatches() not called yet
IdleRanking == [pc |-> "idle", matches |-> <<>>, ranked |-> <<>>, top |-> <<>>]

\* step 4 of the handler: rankMatches(scoredMatches).slice(0, 3)
Rank(matches) ==
    /\ ranking.pc = "idle"
    /\ \E ranked \in {rankMatches(matches)} :
          ranking' = [pc |-> "ranked", matches |-> matches, ranked |-> ranked,
                      top |-> topMatches(ranked)]
    /\ UNCHANGED <<services, now, proc, streak, serverVars, retryLoop, scoring, monitor, asyncVars>>

(***************************************************************************)
(* calculateMatch() on its own, over assignments with repeated niches and  *)
(* with optional fields absent                                             *)
(***************************************************************************)
\* an assignment with its required text fields only
BareAssignment ==
    [NoAssignment EXCEPT !.present = TRUE, !.hasTopic = TRUE,
                         !.hasKeyTakeaway = TRUE, !.hasAdditionalContext = TRUE]

\* the assignments given to calculateMatch(): every optional field set, a
\* niche requested twice in two letter cases, a niche requested twice among
\* three, no optional field, a locale only, an audience without a locale
ScoreAssignments ==
    {RuleAssignment,
     [RuleAssignment EXCEPT !.creatorNiches = <<"DIY", "diy">>],
     [RuleAssignment EXCEPT !.creatorNiches = <<"Finance", "DIY", "DIY">>],
     BareAssignment,
     [BareAssignment EXCEPT !.hasTargetAudience = TRUE, !.locale = "CA"],
     [RuleAssignment EXCEPT !.locale = ""]}

\* a creator whose analysis holds no list and who has no region
CreatorBare ==
    Creator("bare", 0, 0, "", <<>>, <<>>, <<>>, {}, FALSE, <<>>)

ScoreCreators == {CreatorMM, CreatorMD, CreatorCC, CreatorCB, CreatorBare}

\* semanticScore, the cosine similarity of the vector query, in 1/100
SemanticScores == {0 - 100, 0 - 20, 0, 50, 100}

\* calculateMatch() not called yet
IdleScoring ==
    [pc |-> "idle", assignment |-> NoAssignment, creator |-> CreatorBare,
     semanticScore |-> 0, nicheAlignment |-> 0, audienceMatch |-> 0,
     match |-> calculateMatch(NoAssignment, CreatorBare, 0)]

\* matcher.calculateMatch(assignment, creator, semanticScore), with the
\* results of the calculateNicheAlignment() and calculateAudienceMatch()
\* calls it makes
Score(assignment, creator, semanticScore) ==
    /\ scoring.pc = "idle"
    /\ scoring' = [pc |-> "scored", assignment |-> assignment, creator |-> creator,
                   semanticScore |-> semanticScore,
                   nicheAlignment |-> calculateNicheAlignment(assignment, creator),
                   audienceMatch |-> calculateAudienceMatch(assignment, creator),
                   match |-> calculateMatch(assignment, creator, semanticScore)]
    /\ UNCHANGED <<services, now, proc, streak, serverVars, retryLoop, ranking, monitor, asyncVars>>

(***************************************************************************)
(* executeWithRetry() on its own: the invocations of the remote operation, *)
(* the errors they threw and the delays slept between them                 *)
(***************************************************************************)
\* error.headers?.['retry-after'] is undefined
NoHint == 0 - 1

\* the retry-after header of an error, in seconds
RetryAfterHints == {NoHint, 0, 1, 5}

\* what an invocation of the remote operation throws
ThrownErrors == [kind : ErrorKinds, retryAfter : RetryAfterHints]

\* no call in progress
IdleLoop ==
    [pc |-> "idle", dep |-> "none", invocations |-> 0, errors |-> <<>>,
     delays |-> <<>>, thrown |-> [kind |-> "none", retryAfter |-> NoHint]]

\* this.retryDelay * Math.pow(2, attempt - 1), in ms
backoffDelay(attempt) == RetryDelay * 2 ^ (attempt - 1)

\* the delay executeWithRetry() sleeps after the failed attempt, in ms.
\* OpenAI, status 429: (headers['retry-after'] || Math.pow(2, attempt)) * 1000,
\* the header being a string, which is truthy also when it reads "0".
\* Bedrock, ThrottlingException: Math.pow(2, attempt) * 1000.
\* Otherwise, and always for Pinecone: the exponential backoff.
retryDelayOf(d, attempt, error) ==
    IF d = "openai" /\ error.kind = "throttled"
    THEN (IF error.retryAfter # NoHint THEN error.retryAfter ELSE 2 ^ attempt) * 1000
    ELSE IF d = "bedrock" /\ error.kind = "throttled"
    THEN 2 ^ attempt * 1000
    ELSE backoffDelay(attempt)

\* executeWithRetry() is entered: the first invocation of the operation
RetryStart(d) ==
    /\ retryLoop.pc = "idle"
    /\ retryLoop' = [IdleLoop EXCEPT !.pc = "calling", !.dep = d, !.invocations = 1]
    /\ UNCHANGED <<services, now, proc, streak, serverVars, ranking, scoring, monitor, asyncVars>>

\* the invocation returned: return await operation.call(this, ...args)
RetryAttemptOk ==
    /\ retryLoop.pc = "calling"
    /\ retryLoop' = [retryLoop EXCEPT !.pc = "returned"]
    /\ UNCHANGED <<services, now, proc, streak, serverVars, ranking, scoring, monitor, asyncVars>>

\* the invocation threw error: the catch block, and either the sleep and
\* the next invocation, or throw lastError
RetryAttemptFail(error) ==
    LET d == retryLoop.dep
        attempt == retryLoop.invocations
    IN  /\ retryLoop.pc = "calling"
        /\ retryLoop' =
               IF retryAgain(d, attempt, error.kind)
               THEN [retryLoop EXCEPT
                        !.errors = Append(@, error),
                        !.delays = Append(@, retryDelayOf(d, attempt, error)),
                        !.invocations = @ + 1]
               ELSE [retryLoop EXCEPT
                        !.errors = Append(@, error),
                        !.pc = "threw",
                        !.thrown = error]
        /\ UNCHANGED <<services, now, proc, streak, serverVars, ranking, scoring, monitor, asyncVars>>

(***************************************************************************)
(* The health monitor (shared/services/healthMonitor.js) and the checks    *)
(* serviceManager.registerHealthChecks() registers with it                 *)
(***************************************************************************)
\* no service is registered: serviceManager.initialize() has not finished
NoMonitor == [d \in Deps |-> "none"]

\* registerHealthChecks(): 'pinecone' and the primary AI provider, each
\* with lastStatus 'unknown'
registerHealthChecks(ai) ==
    [d \in Deps |-> IF d \in {"pinecone", ai} THEN "unknown" ELSE "none"]

\* the option 'critical' a service was registered with: true for both
critical(name) == name \in Deps

\* getOverallHealth().status
getOverallHealth(m) ==
    LET unhealthyServices == {d \in Deps : m[d] = "unhealthy"}
        unhealthyCritical == {d \in unhealthyServices : critical(d)}
    IN  IF unhealthyCritical # {} THEN "critical"
        ELSE IF unhealthyServices # {} THEN "degraded"
        ELSE "healthy"

\* checkServiceHealth() of the primary AI provider: its check only reads
\* the adapter's circuitBreakerState
HealthCheckAI ==
    /\ monitor[aiProvider] # "none"
    /\ monitor' = [monitor EXCEPT ![aiProvider] =
                      IF services[aiProvider].circuitBreakerState = "OPEN"
                      THEN "unhealthy" ELSE "healthy"]
    /\ UNCHANGED <<services, now, proc, streak, serverVars, retryLoop, ranking, scoring, asyncVars>>

\* checkServiceHealth('pinecone') up to its first await: unhealthy when the
\* breaker reads OPEN, else the check calls getIndexStats()
HealthCheckPinecone(p) ==
    /\ monitor["pinecone"] # "none"
    /\ \A q \in Procs : proc[q].kind # "health"
    /\ proc[p].kind = "none"
    /\ \A q \in Procs : q < p => proc[q].kind # "none"
    /\ IF services["pinecone"].circuitBreakerState = "OPEN"
       THEN /\ monitor' = [monitor EXCEPT !["pinecone"] = "unhealthy"]
            /\ UNCHANGED <<services, proc>>
       ELSE /\ BeginOp(p, [IdleProc EXCEPT !.kind = "health", !.dep = "pinecone"])
            /\ UNCHANGED monitor
    /\ UNCHANGED <<now, streak, serverVars, retryLoop, ranking, scoring, asyncVars>>

\* getIndexStats() settled: healthy when it returned, unhealthy when it threw
HealthCheckSettled(p) ==
    /\ proc[p].kind = "health" /\ proc[p].pc = "returned"
    /\ monitor' = [monitor EXCEPT !["pinecone"] =
                      IF proc[p].outcome = "ok" THEN "healthy" ELSE "unhealthy"]
    /\ proc' = [proc EXCEPT ![p] = IdleProc]
    /\ UNCHANGED <<services, now, streak, serverVars, retryLoop, ranking, scoring, asyncVars>>

\* the timeout of the check wins the Promise.race: the check is unhealthy
\* and getIndexStats() goes on with nobody waiting for it
HealthCheckTimeout(p) ==
    /\ proc[p].kind = "health" /\ proc[p].pc # "returned"
    /\ monitor' = [monitor EXCEPT !["pinecone"] = "unhealthy"]
    /\ proc' = [proc EXCEPT ![p].kind = "call"]
    /\ UNCHANGED <<services, now, streak, serverVars, retryLoop, ranking, scoring, asyncVars>>

(***************************************************************************)
(* Startup: initializeServices() -> serviceManager.initialize(), which     *)
(* calls initialize() of Pinecone and of the primary AI adapter and waits  *)
(* for both to settle, whatever their outcome                              *)
(***************************************************************************)
StartupSettled(d, ok) ==
    /\ startup[d] = "pending"
    /\ services' = [services EXCEPT ![d] =
                       IF ok THEN initializeOk(@) ELSE handleFailure(@, now)]
    /\ startup' = [startup EXCEPT ![d] = "settled"]
    /\ servicesInitialized' = (\A e \in Deps : startup'[e] # "pending")
    /\ streak' = [streak EXCEPT ![d] = IF ok THEN @ ELSE StreakAfterFailure(@)]
    /\ UNCHANGED <<now, proc, aiProvider, creatorCache, lastCacheUpdate, env, unitVars>>

(***************************************************************************)
(* ServiceManager (shared/services/healthMonitor.js 274-429):              *)
(* initialize(), _performInitialization() and gracefulShutdown(), called   *)
(* by NumCallers callers                                                   *)
(***************************************************************************)
Callers == 1..NumCallers

NoCall == [op |-> "none", pc |-> "idle"]

\* the constructor; lastCall and overlapped are history: the caller of the
\* most recent call, and whether a call began while another was waiting
NewManager ==
    [initialized |-> FALSE,
     initializationPromise |-> "null",
     isMonitoring |-> FALSE,
     calls |-> [c \in Callers |-> NoCall],
     lastCall |-> 0,
     overlapped |-> FALSE]

\* a call by c begins
beginCall(m, c) ==
    [m EXCEPT !.lastCall = c,
              !.overlapped = @ \/ \E e \in Callers \ {c} : m.calls[e].pc = "waiting"]

\* initialize()
ManagerInitialize(c) ==
    /\ manager.calls[c].pc # "waiting"
    /\ \E m \in {beginCall(manager, c)} :
         IF manager.initialized
         THEN /\ manager' = [m EXCEPT !.calls[c] = [op |-> "initialize", pc |-> "resolved"]]
              /\ UNCHANGED <<services, startup>>
         ELSE IF manager.initializationPromise # "null"
         THEN /\ manager' = [m EXCEPT !.calls[c] =
                                 [op |-> "initialize",
                                  pc |-> IF manager.initializationPromise = "resolved"
                                         THEN "resolved" ELSE "waiting"]]
              /\ UNCHANGED <<services, startup>>
         ELSE /\ manager' = [m EXCEPT !.initializationPromise = "pending",
                                      !.calls[c] = [op |-> "initialize", pc |-> "waiting"]]
              /\ startup' = [d \in Deps |->
                                IF d = "pinecone" \/ (d = "openai" /\ aiProvider = "openai")
                                THEN "pending" ELSE startup[d]]
              /\ services' = [d \in Deps |->
                                 IF d = "bedrock" /\ aiProvider = "bedrock"
                                 THEN initializeOk(services[d]) ELSE services[d]]
    /\ UNCHANGED <<now, proc, streak, aiProvider, servicesInitialized, creatorCache,
                   lastCacheUpdate, env, retryLoop, ranking, scoring, monitor,
                   indexing, embedding, connPool>>

\* _performInitialization() after Promise.allSettled(): registerHealthChecks(),
\* startMonitoring(), initialized = true; the promise resolves
PerformInitializationDone ==
    /\ manager.initializationPromise = "pending"
    /\ \A d \in Deps : startup[d] # "pending"
    /\ monitor' = registerHealthChecks(aiProvider)
    /\ manager' = [manager EXCEPT
                      !.initialized = TRUE,
                      !.isMonitoring = TRUE,
                      !.initializationPromise = "resolved",
                      !.calls = [c \in Callers |->
                                    IF @[c] = [op |-> "initialize", pc |-> "waiting"]
                                    THEN [op |-> "initialize", pc |-> "resolved"]
                                    ELSE @[c]]]
    /\ UNCHANGED <<services, now, proc, streak, serverVars, retryLoop, ranking, scoring,
                   indexing, embedding, connPool>>

\* gracefulShutdown() up to its await: stopMonitoring(), and disconnect()
\* of every connected adapter, each of which runs without waiting
GracefulShutdown(c) ==
    /\ manager.calls[c].pc # "waiting"
    /\ manager' = [beginCall(manager, c) EXCEPT
                      !.isMonitoring = FALSE,
                      !.calls[c] = [op |-> "gracefulShutdown", pc |-> "waiting"]]
    /\ services' = [d \in Deps |->
                       IF services[d].isConnected THEN disconnect(services[d])
                       ELSE services[d]]
    /\ UNCHANGED <<now, proc, streak, serverVars, retryLoop, ranking, scoring, monitor,
                   indexing, embedding, connPool>>

\* gracefulShutdown() after Promise.all(): initialized = false
GracefulShutdownDone(c) ==
    /\ manager.calls[c] = [op |-> "gracefulShutdown", pc |-> "waiting"]
    /\ manager' = [manager EXCEPT
                      !.initialized = FALSE,
                      !.calls[c] = [op |-> "gracefulShutdown", pc |-> "resolved"]]
    /\ UNCHANGED <<services, now, proc, streak, serverVars, retryLoop, ranking, scoring,
                   monitor, indexing, embedding, connPool>>

\* isInitialized()
isInitialized(m) == m.initialized

(***************************************************************************)
(* PineconeService.initialize() step by step (pinecone.js 19-94): the      *)
(* public operations call it while isConnected is false; it lists the      *)
(* indexes, creates the index when the list lacks it and polls until the   *)
(* index is ready                                                           *)
(***************************************************************************)
\* exists, ready: the index at Pinecone; created: createIndex requests sent;
\* calls: where each caller's initialize() is, and the error it threw
NoIndexing ==
    [exists |-> FALSE,
     ready |-> FALSE,
     created |-> 0,
     calls |-> [c \in Callers |-> [pc |-> "idle", error |-> "none"]]]

\* initialize() threw: the catch at 41-45
initializeThrew(c, error) ==
    /\ services["pinecone"].failureCount < MaxFailureCount
    /\ services' = [services EXCEPT !["pinecone"] = handleFailure(@, now)]
    /\ indexing' = [indexing EXCEPT !.calls[c] = [pc |-> "failed", error |-> error]]

\* initialize() reached its tail, 34-39
initializeReturned(c) ==
    /\ services' = [services EXCEPT !["pinecone"] = initializeOk(@)]
    /\ indexing' = [indexing EXCEPT !.calls[c] = [pc |-> "done", error |-> "none"]]

\* a public operation finds isConnected false and calls initialize(), which
\* runs to await this.client.listIndexes()
IndexInitialize(c) ==
    /\ indexing.calls[c].pc \in {"idle", "done", "failed"}
    /\ ~services["pinecone"].isConnected
    /\ indexing' = [indexing EXCEPT !.calls[c] = [pc |-> "listing", error |-> "none"]]
    /\ UNCHANGED <<services, now, proc, streak, serverVars, retryLoop, ranking, scoring,
                   monitor, manager, embedding, connPool>>

\* listIndexes() answered, or failed: with the index in the list
\* initialize() goes to its tail, without it createIndex() is sent
ListIndexesSettled(c, ok) ==
    /\ indexing.calls[c].pc = "listing"
    /\ IF ~ok THEN initializeThrew(c, "listIndexes failed")
       ELSE IF indexing.exists THEN initializeReturned(c)
       ELSE /\ indexing.created < MaxCreates
            /\ indexing' = [indexing EXCEPT !.created = @ + 1,
                                            !.calls[c].pc = "creating"]
            /\ UNCHANGED services
    /\ UNCHANGED <<now, proc, streak, serverVars, retryLoop, ranking, scoring,
                   monitor, manager, embedding, connPool>>

\* createIndex() settled: Pinecone creates the index, answers that an index
\* of that name already exists, or the request fails
CreateIndexSettled(c, ok) ==
    /\ indexing.calls[c].pc = "creating"
    /\ IF indexing.exists THEN initializeThrew(c, "ALREADY_EXISTS")
       ELSE IF ~ok THEN initializeThrew(c, "createIndex failed")
       ELSE /\ indexing' = [indexing EXCEPT !.exists = TRUE,
                                            !.calls[c].pc = "waiting"]
            /\ UNCHANGED services
    /\ UNCHANGED <<now, proc, streak, serverVars, retryLoop, ranking, scoring,
                   monitor, manager, embedding, connPool>>

\* Pinecone finished building the index
IndexBecomesReady ==
    /\ indexing.exists /\ ~indexing.ready
    /\ indexing' = [indexing EXCEPT !.ready = TRUE]
    /\ UNCHANGED <<services, now, proc, streak, serverVars, retryLoop, ranking, scoring,
                   monitor, manager, embedding, connPool>>

\* waitForIndexReady(): describeIndex() reports ready, or maxWaitTime passed
WaitForIndexReadySettled(c) ==
    /\ indexing.calls[c].pc = "waiting"
    /\ IF indexing.ready THEN initializeReturned(c)
       ELSE initializeThrew(c, "did not become ready")
    /\ UNCHANGED <<now, proc, streak, serverVars, retryLoop, ranking, scoring,
                   monitor, manager, embedding, connPool>>

(***************************************************************************)
(* BedrockService.generateEmbedding() and generateEmbeddings()             *)
(* (bedrock.js 143-178) on an initialised adapter, called by NumCallers    *)
(* callers. A request that fails fails with an error that is not retried.  *)
(***************************************************************************)
concurrencyLimit == 3

\* inFlight: client.send() calls Bedrock has not answered; orphans: those
\* among them whose generateEmbeddings() call has already rejected;
\* calls: per caller the texts it passed, the loop index i and the
\* promises of the current batch that have not settled
NoEmbedding ==
    [inFlight |-> 0,
     orphans |-> 0,
     calls |-> [c \in Callers |-> [op |-> "none", texts |-> 0, i |-> 0, pending |-> 0]]]

\* texts.slice(i, i + concurrencyLimit).length
batchSize(texts, i) == Min(concurrencyLimit, texts - i)

\* generateEmbedding(text): through the breaker's OPEN check to client.send(),
\* or rejected by the breaker
GenerateEmbedding(c) ==
    /\ embedding.calls[c].op = "none"
    /\ embedding.inFlight + 1 <= MaxInFlight
    /\ \E e \in {breakerEntry(services["bedrock"], now)} :
         /\ services' = [services EXCEPT !["bedrock"] = e.svc]
         /\ IF e.admitted
            THEN embedding' = [embedding EXCEPT
                                  !.inFlight = @ + 1,
                                  !.calls[c] = [op |-> "generateEmbedding", texts |-> 1,
                                                i |-> 0, pending |-> 1]]
            ELSE UNCHANGED embedding
    /\ UNCHANGED <<now, proc, streak, serverVars, retryLoop, ranking, scoring,
                   monitor, manager, indexing, connPool>>

\* generateEmbeddings(texts) up to its first await Promise.all(): the first
\* batch's generateEmbedding() calls have each reached client.send()
GenerateEmbeddings(c, texts) ==
    /\ embedding.calls[c].op = "none"
    /\ embedding.inFlight + batchSize(texts, 0) <= MaxInFlight
    /\ \E e \in {breakerEntry(services["bedrock"], now)} :
         /\ services' = [services EXCEPT !["bedrock"] = e.svc]
         /\ IF e.admitted
            THEN embedding' = [embedding EXCEPT
                                  !.inFlight = @ + batchSize(texts, 0),
                                  !.calls[c] = [op |-> "generateEmbeddings", texts |-> texts,
                                                i |-> 0, pending |-> batchSize(texts, 0)]]
            ELSE UNCHANGED embedding
    /\ UNCHANGED <<now, proc, streak, serverVars, retryLoop, ranking, scoring,
                   monitor, manager, indexing, connPool>>

\* Bedrock answered one request of caller c. An error rejects the call at
\* once and leaves the batch's other requests running; the last answer of a
\* batch starts the next batch or resolves the call.
EmbeddingSettled(c, ok) ==
    LET call == embedding.calls[c]
        next == call.i + concurrencyLimit
        idle == [op |-> "none", texts |-> 0, i |-> 0, pending |-> 0]
    IN  /\ call.pending > 0
        /\ IF ~ok
           THEN /\ services["bedrock"].failureCount < MaxFailureCount
                /\ services' = [services EXCEPT !["bedrock"] = breakerOnError(@, now)]
                /\ embedding' = [embedding EXCEPT
                                     !.inFlight = @ - 1,
                                     !.orphans = @ + call.pending - 1,
                                     !.calls[c] = idle]
           ELSE /\ services' = [services EXCEPT !["bedrock"] = breakerOnSuccess(@)]
                /\ IF call.pending > 1
                   THEN embedding' = [embedding EXCEPT !.inFlight = @ - 1,
                                                       !.calls[c].pending = @ - 1]
                   ELSE IF next < call.texts
                   THEN embedding' = [embedding EXCEPT
                                         !.inFlight = @ - 1 + batchSize(call.texts, next),
                                         !.calls[c].i = next,
                                         !.calls[c].pending = batchSize(call.texts, next)]
                   ELSE embedding' = [embedding EXCEPT !.inFlight = @ - 1,
                                                       !.calls[c] = idle]
        /\ UNCHANGED <<now, proc, streak, serverVars, retryLoop, ranking, scoring,
                       monitor, manager, indexing, connPool>>

\* Bedrock answered a request whose generateEmbeddings() call has rejected
OrphanSettled(ok) ==
    /\ embedding.orphans > 0
    /\ ~ok => services["bedrock"].failureCount < MaxFailureCount
    /\ services' = [services EXCEPT !["bedrock"] =
                       IF ok THEN breakerOnSuccess(@) ELSE breakerOnError(@, now)]
    /\ embedding' = [embedding EXCEPT !.inFlight = @ - 1, !.orphans = @ - 1]
    /\ UNCHANGED <<now, proc, streak, serverVars, retryLoop, ranking, scoring,
                   monitor, manager, indexing, connPool>>

(***************************************************************************)
(* ConnectionPool (src/unnamed/part_016): acquire(), processQueue() and    *)
(* release() with every await a step of its own. A connection is its       *)
(* number; a pool item is the connection and its inUse flag.               *)
(***************************************************************************)
Acquirers == 1..NumAcquirers

\* the constructor, with initializePool() at its first createConnection().
\* pool, waitingQueue: the fields; filling: initializePool() is running;
\* creating: processQueue() calls waiting for createConnection() at 139;
\* tasks: processQueue() calls that hold a pool item and a waiter and wait
\* for validateConnection(), destroyConnection() or createConnection();
\* promise, got: the promise acquire() returned to each caller and the
\* connection its waiter was resolved with; made: connections made
NewPool ==
    [pool |-> <<>>,
     waitingQueue |-> <<>>,
     filling |-> TRUE,
     filled |-> 0,
     creating |-> 0,
     tasks |-> {},
     promise |-> [a \in Acquirers |-> "none"],
     got |-> [a \in Acquirers |-> 0],
     made |-> 0]

\* waiter.resolve(connection): clearTimeout() and the promise's resolve,
\* which does nothing to a promise the timeout has rejected
resolveWaiter(q, w, connection) ==
    IF q.promise[w] = "pending"
    THEN [q EXCEPT !.promise[w] = "holding", !.got[w] = connection]
    ELSE [q EXCEPT !.got[w] = connection]

\* waiter.reject(error)
rejectWaiter(q, w) ==
    IF q.promise[w] = "pending" THEN [q EXCEPT !.promise[w] = "rejected"] ELSE q

\* item.inUse = value on the item object of that connection
setInUse(pool, connection, value) ==
    [i \in DOMAIN pool |->
        IF pool[i].conn = connection THEN [pool[i] EXCEPT !.inUse = value] ELSE pool[i]]

\* pool.splice(pool.indexOf(item), 1): indexOf gives -1 for an item that is
\* no longer in the pool, and splice(-1, 1) removes the last item
spliceItem(pool, connection) ==
    IF \E i \in DOMAIN pool : pool[i].conn = connection
    THEN SelectSeq(pool, LAMBDA item : item.conn # connection)
    ELSE IF pool = <<>> THEN pool ELSE SubSeq(pool, 1, Len(pool) - 1)

\* processQueue() up to its first await
processQueue(q) ==
    IF q.waitingQueue = <<>> THEN q
    ELSE IF \E i \in DOMAIN q.pool : ~q.pool[i].inUse
    THEN LET i == CHOOSE k \in DOMAIN q.pool :
                      /\ ~q.pool[k].inUse
                      /\ \A j \in 1..(k - 1) : q.pool[j].inUse
         IN  [q EXCEPT !.waitingQueue = Tail(@),
                       !.tasks = @ \cup {[kind |-> "validate",
                                          conn |-> q.pool[i].conn,
                                          waiter |-> Head(q.waitingQueue)]}]
    ELSE IF Len(q.pool) < maxConnections
    THEN [q EXCEPT !.creating = @ + 1]
    ELSE q

\* what no pool operation touches
PoolFrame ==
    UNCHANGED <<services, now, proc, streak, serverVars, retryLoop, ranking, scoring,
                monitor, manager, indexing, embedding>>

\* acquire()
Acquire(a) ==
    /\ connPool.promise[a] \in {"none", "rejected"}
    /\ connPool' = processQueue([connPool EXCEPT !.waitingQueue = Append(@, a),
                                                  !.promise[a] = "pending",
                                                  !.got[a] = 0])
    /\ connPool'.creating <= MaxCreating
    /\ PoolFrame

\* the acquireTimeout timer fires: findIndex compares the queue item's
\* resolve, the wrapper made at 77-80, with the promise's resolve and
\* finds nothing; the promise is rejected
AcquireTimeout(a) ==
    /\ connPool.promise[a] = "pending"
    /\ connPool' = [connPool EXCEPT !.promise[a] = "timedOut"]
    /\ PoolFrame

\* release(connection) by the caller whose acquire() resolved with it
Release(a) ==
    /\ connPool.promise[a] = "holding"
    /\ \E q \in {[connPool EXCEPT !.promise[a] = "none", !.got[a] = 0]} :
         IF \E i \in DOMAIN q.pool : q.pool[i].conn = connPool.got[a]
         THEN connPool' = processQueue([q EXCEPT
                              !.pool = setInUse(@, connPool.got[a], FALSE)])
         ELSE connPool' = q
    /\ connPool'.creating <= MaxCreating
    /\ PoolFrame

\* validateConnection() settled: true, false or an error
ValidateSettled(t, result) ==
    /\ t \in connPool.tasks /\ t.kind = "validate"
    /\ \E q \in {[connPool EXCEPT !.tasks = @ \ {t}]} :
         connPool' =
            CASE result = "valid" ->
                   resolveWaiter([q EXCEPT !.pool = setInUse(@, t.conn, TRUE)],
                                 t.waiter, t.conn)
              [] result = "invalid" ->
                   [q EXCEPT !.tasks = @ \cup {[t EXCEPT !.kind = "destroy"]}]
              [] OTHER -> rejectWaiter(q, t.waiter)
    /\ PoolFrame

\* destroyConnection() settled: the item is spliced out and
\* createConnection() called, or the error rejects the waiter
DestroySettled(t, ok) ==
    /\ t \in connPool.tasks /\ t.kind = "destroy"
    /\ \E q \in {[connPool EXCEPT !.tasks = @ \ {t}]} :
         connPool' =
            IF ok
            THEN [q EXCEPT !.pool = spliceItem(@, t.conn),
                           !.tasks = @ \cup {[t EXCEPT !.kind = "replace"]}]
            ELSE rejectWaiter(q, t.waiter)
    /\ PoolFrame

\* createConnection() for the replacement settled
ReplaceSettled(t, ok) ==
    /\ t \in connPool.tasks /\ t.kind = "replace"
    /\ ok => connPool.made < MaxMade
    /\ \E q \in {[connPool EXCEPT !.tasks = @ \ {t}]} :
         connPool' =
            IF ok
            THEN resolveWaiter([q EXCEPT !.made = @ + 1,
                                         !.pool = Append(@, [conn |-> q.made + 1,
                                                             inUse |-> TRUE])],
                               t.waiter, q.made + 1)
            ELSE rejectWaiter(q, t.waiter)
    /\ PoolFrame

\* createConnection() at 139 settled: the item is pushed as in use and the
\* waiter now at the head of the queue gets it; with the queue empty
\* waiter.resolve throws a TypeError, which the catch block throws again
CreateSettled(ok) ==
    /\ connPool.creating > 0
    /\ ok => connPool.made < MaxMade
    /\ \E q \in {[connPool EXCEPT !.creating = @ - 1]} :
       \E pushed \in {IF ok
                       THEN [q EXCEPT !.made = @ + 1,
                                      !.pool = Append(@, [conn |-> q.made + 1,
                                                          inUse |-> TRUE])]
                       ELSE q} :
         connPool' =
            IF pushed.waitingQueue = <<>> THEN pushed
            ELSE IF ok
            THEN resolveWaiter([pushed EXCEPT !.waitingQueue = Tail(@)],
                               Head(pushed.waitingQueue), pushed.made)
            ELSE rejectWaiter([pushed EXCEPT !.waitingQueue = Tail(@)],
                              Head(pushed.waitingQueue))
    /\ PoolFrame

\* initializePool(): one createConnection() of its loop settled
FillSettled(ok) ==
    /\ connPool.filling
    /\ ok => connPool.made < MaxMade
    /\ connPool' =
          IF ok
          THEN [connPool EXCEPT !.made = @ + 1,
                                !.pool = Append(@, [conn |-> connPool.made + 1,
                                                    inUse |-> FALSE]),
                                !.filled = @ + 1,
                                !.filling = connPool.filled + 1 < minConnections]
          ELSE [connPool EXCEPT !.filling = FALSE]
    /\ PoolFrame

\* nothing of the service manager, the index, the embedding requests or
\* the pool has run
AsyncIdle ==
    /\ manager = NewManager
    /\ indexing = NoIndexing
    /\ embedding = NoEmbedding
    /\ connPool = NewPool

(***************************************************************************)
(* Spec: the matching service from the load of server.js on                *)
(***************************************************************************)
\* module load: the adapters are constructed and initializeServices() has
\* run to its first await. Bedrock's initialize() has nothing to wait for.
\* The deployment sets ASSIGNMENT_SERVICE_URL; a request without assignmentId
\* takes the branch an unset URL would take.
Init ==
    /\ aiProvider \in {"openai", "bedrock"}
    /\ services = [d \in Deps |->
                      IF d = "bedrock" /\ aiProvider = "bedrock"
                      THEN initializeOk(NewService) ELSE NewService]
    /\ startup = [d \in Deps |->
                      IF d = "pinecone" \/ (d = "openai" /\ aiProvider = "openai")
                      THEN "pending" ELSE "none"]
    /\ servicesInitialized = FALSE
    /\ now = 0
    /\ proc = [p \in Procs |-> IdleProc]
    /\ streak = [d \in Deps |-> NotTracked]
    /\ creatorCache = NullCache
    /\ lastCacheUpdate = 0
    /\ retryLoop = IdleLoop
    /\ ranking = IdleRanking
    /\ scoring = IdleScoring
    /\ monitor = NoMonitor
    /\ AsyncIdle
    /\ env \in [creatorsFile : Catalogs, ASSIGNMENT_SERVICE_URL : {TRUE}]

Next ==
    \/ \E d \in Deps, ok \in BOOLEAN : StartupSettled(d, ok)
    \/ \E p \in Requests, body \in Bodies : ReceiveMatch(p, body)
    \/ \E p \in Procs : AfterEmbedding(p)
    \/ \E p \in Procs, reply \in CandidateLists : AfterQuery(p, reply)
    \/ \E p \in Procs : ReadOk(p)
    \/ \E p \in Procs : ReadFail(p)
    \/ \E p \in Procs, id \in BOOLEAN : AfterCompletion(p, id)
    \/ \E p \in Procs, result \in {"ok", "notOk", "throws"} : PersistSettled(p, result)
    \/ \E p \in Procs : Finish(p)
    \/ \E p \in Procs : InitOk(p)
    \/ \E p \in Procs : InitFail(p)
    \/ \E p \in Procs : Admit(p)
    \/ \E p \in Procs : AttemptOk(p)
    \/ \E p \in Procs, err \in ErrorKinds : AttemptFail(p, err)
    \/ Tick

Spec == Init /\ [][Next]_vars

(***************************************************************************)
(* SpecRequests: the matching service with or without a persistence        *)
(* target, receiving request bodies of every shape. Date.now() is read by  *)
(* the breaker and the cache only; here the requests are served within one *)
(* clock value, so a breaker that opened stays open.                       *)
(***************************************************************************)
InitRequests ==
    /\ aiProvider \in {"openai", "bedrock"}
    /\ services = [d \in Deps |->
                      IF d = "bedrock" /\ aiProvider = "bedrock"
                      THEN initializeOk(NewService) ELSE NewService]
    /\ startup = [d \in Deps |->
                      IF d = "pinecone" \/ (d = "openai" /\ aiProvider = "openai")
                      THEN "pending" ELSE "none"]
    /\ servicesInitialized = FALSE
    /\ now = 0
    /\ proc = [p \in Procs |-> IdleProc]
    /\ streak = [d \in Deps |-> NotTracked]
    /\ creatorCache = NullCache
    /\ lastCacheUpdate = 0
    /\ retryLoop = IdleLoop
    /\ ranking = IdleRanking
    /\ scoring = IdleScoring
    /\ monitor = NoMonitor
    /\ AsyncIdle
    /\ env \in [creatorsFile : Catalogs, ASSIGNMENT_SERVICE_URL : BOOLEAN]

NextRequests ==
    \/ \E d \in Deps, ok \in BOOLEAN : StartupSettled(d, ok)
    \/ \E p \in Requests, body \in RequestBodies : ReceiveMatch(p, body)
    \/ \E p \in Procs : AfterEmbedding(p)
    \/ \E p \in Procs, reply \in CandidateLists : AfterQuery(p, reply)
    \/ \E p \in Procs : ReadOk(p)
    \/ \E p \in Procs : ReadFail(p)
    \/ \E p \in Procs, id \in BOOLEAN : AfterCompletion(p, id)
    \/ \E p \in Procs, result \in {"ok", "notOk", "throws"} : PersistSettled(p, result)
    \/ \E p \in Procs : Finish(p)
    \/ \E p \in Procs : InitOk(p)
    \/ \E p \in Procs : InitFail(p)
    \/ \E p \in Procs : Admit(p)
    \/ \E p \in Procs : AttemptOk(p)
    \/ \E p \in Procs, err \in ErrorKinds : AttemptFail(p, err)

SpecRequests == InitRequests /\ [][NextRequests]_vars

(***************************************************************************)
(* SpecCache: the matching service serving two requests at a time over a   *)
(* span of several cache lifetimes, while creators.json is rewritten. The  *)
(* remote providers answer every call: loadCreators() reads and writes     *)
(* nothing of the adapters, and the file read is what succeeds or fails.   *)
(***************************************************************************)
\* the clock advances by half a cache lifetime at most this many times
MaxCacheTicks == 4

\* time passes: half of CACHE_TTL
CacheTick ==
    /\ now < MaxCacheTicks * (CACHE_TTL \div 2)
    /\ now' = now + CACHE_TTL \div 2
    /\ UNCHANGED <<services, proc, streak, serverVars, unitVars>>

\* creators.json is replaced on disk
CatalogChanges(creators) ==
    /\ creators # env.creatorsFile
    /\ env' = [env EXCEPT !.creatorsFile = creators]
    /\ UNCHANGED <<services, now, proc, streak, aiProvider, startup,
                   servicesInitialized, creatorCache, lastCacheUpdate, unitVars>>

\* the catalogs creators.json holds over time
CacheCatalogs ==
    {<<CreatorMM, CreatorMD>>, <<CreatorMM, CreatorMD, CreatorCC, CreatorCB>>}

InitCache ==
    /\ InitRequests
    /\ aiProvider = "bedrock"
    /\ env = [creatorsFile |-> <<CreatorMM, CreatorMD>>, ASSIGNMENT_SERVICE_URL |-> FALSE]

NextCache ==
    \/ \E d \in Deps : StartupSettled(d, TRUE)
    \/ \E p \in Procs : ReceiveMatch(p, RuleAssignment)
    \/ \E p \in Procs : AfterEmbedding(p)
    \/ \E p \in Procs, reply \in CandidateLists : AfterQuery(p, reply)
    \/ \E p \in Procs : ReadOk(p)
    \/ \E p \in Procs : ReadFail(p)
    \/ \E p \in Procs : AfterCompletion(p, FALSE)
    \/ \E p \in Procs : Finish(p)
    \/ \E p \in Procs : AttemptOk(p)
    \/ \E creators \in CacheCatalogs : CatalogChanges(creators)
    \/ CacheTick

SpecCache == InitCache /\ [][NextCache]_vars

(***************************************************************************)
(* SpecLive: the matching service on Bedrock with what Node's event loop   *)
(* guarantees: a continuation whose promise settled is run and a file     *)
(* read ends. Nothing makes a remote provider or the assignment service    *)
(* reply: the adapters and fetch() set no timeout on a request, and the    *)
(* handler starts no timer, so no step of it waits for the clock.          *)
(***************************************************************************)
InitLive ==
    /\ InitRequests
    /\ aiProvider = "bedrock"
    /\ env.creatorsFile = <<CreatorMM, CreatorMD>>

\* the steps the process takes on its own
LocalSteps ==
    \/ \E p \in Procs : AfterEmbedding(p)
    \/ \E p \in Procs, reply \in CandidateLists : AfterQuery(p, reply)
    \/ \E p \in Procs : ReadOk(p) \/ ReadFail(p)
    \/ \E p \in Procs, id \in BOOLEAN : AfterCompletion(p, id)
    \/ \E p \in Procs : Finish(p)
    \/ \E p \in Procs : Admit(p)

SpecLive == InitLive /\ [][NextRequests]_vars /\ WF_vars(LocalSteps)

(***************************************************************************)
(* SpecAdapter: callers use one adapter directly, concurrently             *)
(***************************************************************************)
\* the adapters as constructed, no server around them
InitAdapter ==
    /\ services = [d \in Deps |-> NewService]
    /\ now = 0
    /\ proc = [p \in Procs |-> IdleProc]
    /\ streak = [d \in Deps |-> 0]
    /\ aiProvider = "openai"
    /\ startup = [d \in Deps |-> "none"]
    /\ servicesInitialized = FALSE
    /\ creatorCache = NullCache
    /\ lastCacheUpdate = 0
    /\ retryLoop = IdleLoop
    /\ ranking = IdleRanking
    /\ scoring = IdleScoring
    /\ monitor = NoMonitor
    /\ AsyncIdle
    /\ env = [creatorsFile |-> <<>>, ASSIGNMENT_SERVICE_URL |-> FALSE]

\* the adapters share no state: a behaviour exercises one of them
OnlyUses(d) == \A e \in Deps \ {d} : services[e] = NewService

CallAdapter(p, d, op) == OnlyUses(d) /\ StartCall(p, d, op)

NextAdapter ==
    \/ \E p \in Procs, d \in Deps : \E op \in OpsOf(d) : CallAdapter(p, d, op)
    \/ \E p \in Procs : InitOk(p)
    \/ \E p \in Procs : InitFail(p)
    \/ \E p \in Procs : Admit(p)
    \/ \E p \in Procs : AttemptOk(p)
    \/ \E p \in Procs, err \in ErrorKinds : AttemptFail(p, err)
    \/ \E p \in Procs : Return(p)
    \/ \E d \in Deps : Disconnect(d)
    \/ Tick

SpecAdapter == InitAdapter /\ [][NextAdapter]_vars

(***************************************************************************)
(* SpecHealth: the adapters and the health monitor after                   *)
(* serviceManager.initialize() has finished: callers use the vector index  *)
(* and the AI provider while the monitoring cycle checks them. The health  *)
(* checks read no clock; the calls are made within one clock value, so a   *)
(* breaker that opened stays open.                                         *)
(***************************************************************************)
\* initialize() of each adapter has succeeded or failed, and the health
\* checks are registered
InitHealth ==
    /\ aiProvider = "openai"
    /\ services \in [Deps -> {NewService, initializeOk(NewService),
                               handleFailure(NewService, 0)}]
    /\ services["bedrock"] = NewService
    /\ \A d \in {"pinecone", "openai"} : services[d] # NewService
    /\ now = 0
    /\ proc = [p \in Procs |-> IdleProc]
    /\ streak = [d \in Deps |-> NotTracked]
    /\ startup = [d \in Deps |-> IF d = "bedrock" THEN "none" ELSE "settled"]
    /\ servicesInitialized = TRUE
    /\ creatorCache = NullCache
    /\ lastCacheUpdate = 0
    /\ retryLoop = IdleLoop
    /\ ranking = IdleRanking
    /\ scoring = IdleScoring
    /\ monitor = registerHealthChecks(aiProvider)
    /\ AsyncIdle
    /\ env = [creatorsFile |-> <<>>, ASSIGNMENT_SERVICE_URL |-> FALSE]

NextHealth ==
    \/ \E p \in Procs, d \in {"pinecone", aiProvider} :
          \E op \in OpsOf(d) : StartCall(p, d, op)
    \/ \E p \in Procs : InitOk(p)
    \/ \E p \in Procs : InitFail(p)
    \/ \E p \in Procs : Admit(p)
    \/ \E p \in Procs : AttemptOk(p)
    \/ \E p \in Procs, err \in ErrorKinds : AttemptFail(p, err)
    \/ \E p \in Procs : Return(p)
    \/ HealthCheckAI
    \/ \E p \in Procs : HealthCheckPinecone(p)
    \/ \E p \in Procs : HealthCheckSettled(p)
    \/ \E p \in Procs : HealthCheckTimeout(p)

SpecHealth == InitHealth /\ [][NextHealth]_vars

(***************************************************************************)
(* SpecRetry: one run of the retry loop of each adapter, over every        *)
(* sequence of outcomes of the remote operation                            *)
(***************************************************************************)
NextRetry ==
    \/ \E d \in Deps : RetryStart(d)
    \/ RetryAttemptOk
    \/ \E error \in ThrownErrors : RetryAttemptFail(error)

SpecRetry == InitAdapter /\ [][NextRetry]_vars

(***************************************************************************)
(* SpecRank: rankMatches() applied to every list of matches                *)
(***************************************************************************)
NextRank ==
    \E matches \in MatchLists : Rank(matches)

SpecRank == InitAdapter /\ [][NextRank]_vars

(***************************************************************************)
(* SpecScore: calculateMatch() applied once to an assignment, a creator    *)
(* and a semantic score                                                    *)
(***************************************************************************)
NextScore ==
    \E assignment \in ScoreAssignments, creator \in ScoreCreators,
       semanticScore \in SemanticScores : Score(assignment, creator, semanticScore)

SpecScore == InitAdapter /\ [][NextScore]_vars

(***************************************************************************)
(* SpecManager: a constructed ServiceManager whose initialize() and        *)
(* gracefulShutdown() are called, in sequence or overlapping, while the    *)
(* adapters' initialize() calls succeed or fail                            *)
(***************************************************************************)
InitManager ==
    /\ aiProvider \in {"openai", "bedrock"}
    /\ services = [d \in Deps |-> NewService]
    /\ startup = [d \in Deps |-> "none"]
    /\ servicesInitialized = FALSE
    /\ now = 0
    /\ proc = [p \in Procs |-> IdleProc]
    /\ streak = [d \in Deps |-> NotTracked]
    /\ creatorCache = NullCache
    /\ lastCacheUpdate = 0
    /\ retryLoop = IdleLoop
    /\ ranking = IdleRanking
    /\ scoring = IdleScoring
    /\ monitor = NoMonitor
    /\ AsyncIdle
    /\ env = [creatorsFile |-> <<>>, ASSIGNMENT_SERVICE_URL |-> FALSE]

NextManager ==
    \/ \E c \in Callers : ManagerInitialize(c)
    \/ \E d \in Deps, ok \in BOOLEAN : StartupSettled(d, ok)
    \/ PerformInitializationDone
    \/ \E c \in Callers : GracefulShutdown(c)
    \/ \E c \in Callers : GracefulShutdownDone(c)

SpecManager == InitManager /\ [][NextManager]_vars

(***************************************************************************)
(* SpecIndex: public operations of a constructed Pinecone adapter called   *)
(* while it is not connected, with the index present or missing            *)
(***************************************************************************)
InitIndex ==
    /\ services = [d \in Deps |-> NewService]
    /\ now = 0
    /\ proc = [p \in Procs |-> IdleProc]
    /\ streak = [d \in Deps |-> NotTracked]
    /\ aiProvider = "openai"
    /\ startup = [d \in Deps |-> "none"]
    /\ servicesInitialized = FALSE
    /\ creatorCache = NullCache
    /\ lastCacheUpdate = 0
    /\ retryLoop = IdleLoop
    /\ ranking = IdleRanking
    /\ scoring = IdleScoring
    /\ monitor = NoMonitor
    /\ manager = NewManager
    /\ \E present \in BOOLEAN :
           indexing = [NoIndexing EXCEPT !.exists = present, !.ready = present]
    /\ embedding = NoEmbedding
    /\ connPool = NewPool
    /\ env = [creatorsFile |-> <<>>, ASSIGNMENT_SERVICE_URL |-> FALSE]

NextIndex ==
    \/ \E c \in Callers : IndexInitialize(c)
    \/ \E c \in Callers, ok \in BOOLEAN : ListIndexesSettled(c, ok)
    \/ \E c \in Callers, ok \in BOOLEAN : CreateIndexSettled(c, ok)
    \/ IndexBecomesReady
    \/ \E c \in Callers : WaitForIndexReadySettled(c)

SpecIndex == InitIndex /\ [][NextIndex]_vars

(***************************************************************************)
(* SpecEmbed: the Bedrock adapter, initialised, asked for embeddings by    *)
(* NumCallers callers at once                                              *)
(***************************************************************************)
InitEmbed ==
    /\ services = [d \in Deps |->
                      IF d = "bedrock" THEN initializeOk(NewService) ELSE NewService]
    /\ now = 0
    /\ proc = [p \in Procs |-> IdleProc]
    /\ streak = [d \in Deps |-> NotTracked]
    /\ aiProvider = "bedrock"
    /\ startup = [d \in Deps |-> "none"]
    /\ servicesInitialized = FALSE
    /\ creatorCache = NullCache
    /\ lastCacheUpdate = 0
    /\ retryLoop = IdleLoop
    /\ ranking = IdleRanking
    /\ scoring = IdleScoring
    /\ monitor = NoMonitor
    /\ AsyncIdle
    /\ env = [creatorsFile |-> <<>>, ASSIGNMENT_SERVICE_URL |-> FALSE]

NextEmbed ==
    \/ \E c \in Callers : GenerateEmbedding(c)
    \/ \E c \in Callers, texts \in 1..MaxTexts : GenerateEmbeddings(c, texts)
    \/ \E c \in Callers, ok \in BOOLEAN : EmbeddingSettled(c, ok)
    \/ \E ok \in BOOLEAN : OrphanSettled(ok)

SpecEmbed == InitEmbed /\ [][NextEmbed]_vars

(***************************************************************************)
(* SpecPool: a ConnectionPool from its construction on, used by            *)
(* NumAcquirers callers                                                    *)
(***************************************************************************)
NextPool ==
    \/ \E a \in Acquirers : Acquire(a)
    \/ \E a \in Acquirers : AcquireTimeout(a)
    \/ \E a \in Acquirers : Release(a)
    \/ \E t \in connPool.tasks, result \in {"valid", "invalid", "error"} :
           ValidateSettled(t, result)
    \/ \E t \in connPool.tasks, ok \in BOOLEAN : DestroySettled(t, ok)
    \/ \E t \in connPool.tasks, ok \in BOOLEAN : ReplaceSettled(t, ok)
    \/ \E ok \in BOOLEAN : CreateSettled(ok)
    \/ \E ok \in BOOLEAN : FillSettled(ok)

SpecPool == InitAdapter /\ [][NextPool]_vars

(***************************************************************************)
(* Claims about the breaker and the retry loop (under SpecAdapter)         *)
(***************************************************************************)
InFlight(p) == proc[p].pc = "inflight"

\* a call of p ends in this step
Ends(p) == proc[p].pc \in {"init", "inflight"} /\ proc'[p].pc = "returned"

\* C1: starting from CLOSED with failureCount 0, the step that completes the
\* failureThreshold-th consecutive terminally failed call (no successful call
\* in between) leaves the adapter's breaker OPEN.
C1_OpenAfterThresholdFailures ==
    [][\A d \in Deps :
          (streak[d] = FailureThreshold - 1 /\ streak'[d] = FailureThreshold)
              => services'[d].circuitBreakerState = "OPEN"]_vars

\* C2: a public operation called while the breaker is OPEN and resetTimeout
\* has not elapsed since lastFailureTime fails at once with the circuit-open
\* error and invokes nothing remote (neither the operation nor initialize()).
C2_OpenRejectsWithoutRemoteCall ==
    \A p \in Procs :
        (proc[p].kind # "none" /\ proc[p].startedOpen)
            => /\ proc[p].pc = "returned"
               /\ proc[p].outcome = "circuitOpen"
               /\ proc[p].attempt = 0
               /\ proc[p].initRemote = 0

\* C3: whenever a call through the breaker completes successfully, whatever
\* the state it was admitted in, the adapter's failureCount is 0.
C3_SuccessResetsFailureCount ==
    [][\A p \in Procs :
          (Ends(p) /\ proc'[p].outcome = "ok")
              => services'[proc[p].dep].failureCount = 0]_vars

\* C4: no two calls admitted in HALF_OPEN are in flight on the same adapter
\* at the same time (the later one would have to be rejected).
C4_SingleProbeInHalfOpen ==
    \A p, q \in Procs :
        (p # q /\ InFlight(p) /\ InFlight(q) /\ proc[p].dep = proc[q].dep)
            => ~(proc[p].admittedIn = "HALF_OPEN" /\ proc[q].admittedIn = "HALF_OPEN")

\* C5: when a call admitted in HALF_OPEN completes, under any interleaving:
\* on success the breaker is CLOSED with failureCount 0; on terminal failure
\* it is OPEN with lastFailureTime the time of that failure.
C5_HalfOpenProbeDecides ==
    [][\A p \in Procs :
          (Ends(p) /\ proc[p].admittedIn = "HALF_OPEN")
              => LET s == services'[proc[p].dep]
                 IN  /\ proc'[p].outcome = "ok"
                          => s.circuitBreakerState = "CLOSED" /\ s.failureCount = 0
                     /\ proc'[p].outcome = "error"
                          => s.circuitBreakerState = "OPEN" /\ s.lastFailureTime = now]_vars

Responded(p) == proc[p].kind = "match" /\ proc[p].pc = "responded"

\* the embedding or the vector query of p's request failed terminally
VectorFailed(p) == proc[p].vectorOutcome \in {"error", "circuitOpen", "initError"}

\* the candidates of p's request whose id the catalog knows
KnownCandidates(p) ==
    {i \in 1..Len(proc[p].candidates) :
        HasCreator(proc[p].catalog.creators, proc[p].candidates[i].id)}

\* the creators of a list of matches
MatchIds(matches) == {matches[i].creator.id : i \in 1..Len(matches)}

QueryBeganOpen(p) ==
    /\ proc[p].kind = "match"
    /\ \/ proc[p].stage = "query" /\ proc[p].startedOpen
       \/ proc[p].queryStartedOpen

\* the vector-query call of p's request sent the query to the index
QueryReachedIndex(p) ==
    \/ proc[p].stage = "query" /\ proc[p].attempt > 0
    \/ proc[p].queryReached

\* C8: scenario S5. A match request whose vector query begins while the
\* Pinecone breaker is Open and resetTimeout has not elapsed does not send
\* the query to the index and is answered with isFallback = true; a call
\* admitted as the probe that succeeds leaves the breaker CLOSED; and a
\* request whose vector query begins with the breaker CLOSED is admitted to
\* the vector path.
C8_OpenWindowFallsBackThenRecovers ==
    [][\A p \in Procs :
          /\ QueryBeganOpen(p)'
                => /\ ~QueryReachedIndex(p)'
                   /\ Responded(p)' => proc'[p].response.isFallback
          /\ (proc[p].dep = "pinecone" /\ Ends(p)
                 /\ proc[p].admittedIn = "HALF_OPEN" /\ proc'[p].outcome = "ok")
                => services'["pinecone"].circuitBreakerState = "CLOSED"
          /\ (proc[p].stage = "embed" /\ proc'[p].stage = "query"
                 /\ services["pinecone"].isConnected
                 /\ services["pinecone"].circuitBreakerState = "CLOSED")
                => proc'[p].pc = "inflight"]_vars

MatchesOf(p) ==
    topMatches(rankMatches(scoreMatches(proc[p].assignment, proc[p].catalog.creators,
                                        proc[p].candidates,
                                        proc[p].vectorOutcome # "ok")))

\* C10: a request whose completion call failed (a circuit-open rejection
\* included) is answered 200 with the canned reasoning and with the matches,
\* in the order and with the scores, that a request whose completion call
\* succeeded carries.
C10_CompletionFailureKeepsMatches ==
    \A p \in Procs :
        (Responded(p) /\ proc[p].completionOutcome # "none")
        => LET r == proc[p].response
           IN  /\ r.status = 200
               /\ r.matches = MatchesOf(p)
               /\ r.isFallback = (proc[p].vectorOutcome # "ok")
               /\ r.reasoning = IF proc[p].completionOutcome = "ok"
                                THEN "ai" ELSE "canned"

\* a request with matches whose completion call the breaker rejected
C10_Witness ==
    \E p \in Procs :
        /\ Responded(p) /\ proc[p].completionOutcome = "circuitOpen"
        /\ proc[p].response.status = 200
        /\ proc[p].response.reasoning = "canned"
        /\ Len(proc[p].response.matches) > 0

(***************************************************************************)
(* Claims about the persistence step, the empty result and the input check *)
(***************************************************************************)
\* the write-back of p's request was sent
PersistAttempted(p) ==
    proc[p].pc = "fetching" \/ proc[p].persistOutcome # "none"

\* C11: the write-back is sent only for a request that carries an
\* assignmentId while ASSIGNMENT_SERVICE_URL is set, and for every request
\* that got past the completion step under those two conditions; whatever
\* the write-back ends in (2xx, another status, an exception), the request
\* is answered 200 with the matches, the reasoning and the isFallback it
\* had before the write-back.
C11_PersistenceNeverChangesOutcome ==
    \A p \in Procs :
        /\ PersistAttempted(p)
               => proc[p].assignmentId /\ env.ASSIGNMENT_SERVICE_URL
        /\ (Responded(p) /\ proc[p].completionOutcome # "none")
               => LET r == proc[p].response
                  IN  /\ (proc[p].persistOutcome # "none")
                            = (proc[p].assignmentId /\ env.ASSIGNMENT_SERVICE_URL)
                      /\ r.status = 200
                      /\ r.matches = MatchesOf(p)
                      /\ r.isFallback = (proc[p].vectorOutcome # "ok")
                      /\ r.reasoning = IF proc[p].completionOutcome = "ok"
                                       THEN "ai" ELSE "canned"

\* a request in fallback whose write-back was answered with a non-2xx status
\* and that is answered with its matches and the AI reasoning
C11_Witness ==
    \E p \in Procs :
        /\ Responded(p) /\ proc[p].persistOutcome = "notOk"
        /\ proc[p].response.status = 200
        /\ proc[p].response.isFallback
        /\ proc[p].response.reasoning = "ai"
        /\ Len(proc[p].response.matches) = 2

\* no creator is left to score for p's request
NothingToScore(p) ==
    IF VectorFailed(p) THEN Len(proc[p].catalog.creators) = 0
    ELSE KnownCandidates(p) = {}

LacksRequiredField(p) ==
    /\ proc[p].kind = "match" /\ proc[p].assignment.present
    /\ ~(proc[p].assignment.hasTopic /\ proc[p].assignment.hasKeyTakeaway
          /\ proc[p].assignment.hasAdditionalContext)

\* C13: a request whose assignment lacks a required field is answered 400
\* at once: no embedding, vector-query, completion or persistence call is
\* made for it.
C13_MissingFieldRejected ==
    \A p \in Procs :
        LacksRequiredField(p)
            => /\ proc[p].pc = "responded"
               /\ proc[p].response.status = 400
               /\ proc[p].dep = "none"

(***************************************************************************)
(* Claim about the request deadline (under SpecLive)                       *)
(***************************************************************************)
\* C14: every match request is eventually answered (with a response or a
\* deadline error), also when a call to a provider or to the assignment
\* service never returns.
C14_RequestsComplete ==
    \A p \in Requests : (proc[p].kind = "match") ~> Responded(p)

(***************************************************************************)
(* Claims about the retry loop (under SpecRetry)                           *)
(***************************************************************************)
\* the delay bound of the specification, in ms
MaxDelay == 5000

Max(a, b) == IF a >= b THEN a ELSE b

\* C15: a run of executeWithRetry() invokes the remote operation at most
\* maxRetries times, one more time than it has caught errors while it is
\* under way; it returns at the first invocation that succeeds, and it
\* throws the error of its last invocation, which is the third when every
\* error before it was retried.
C15_AtMostMaxRetriesInvocations ==
    /\ retryLoop.invocations <= MaxRetries
    /\ retryLoop.pc \in {"calling", "returned"}
           => retryLoop.invocations = Len(retryLoop.errors) + 1
    /\ retryLoop.pc = "threw"
           => /\ retryLoop.invocations = Len(retryLoop.errors)
              /\ retryLoop.thrown = retryLoop.errors[Len(retryLoop.errors)]
    /\ Len(retryLoop.errors) = MaxRetries => retryLoop.pc = "threw"
    /\ retryLoop.pc # "idle"
           => Len(retryLoop.delays) = retryLoop.invocations - 1

\* three attempts failed, the first two retried after a throttling and a
\* transport error, and the third error is the one thrown
C15_Witness ==
    /\ retryLoop.pc = "threw" /\ retryLoop.dep = "bedrock"
    /\ retryLoop.invocations = MaxRetries
    /\ retryLoop.errors[1].kind = "throttled"
    /\ retryLoop.errors[2].kind = "retryable"
    /\ retryLoop.thrown = [kind |-> "throttled", retryAfter |-> 1]

\* C16: in every adapter, an invocation that throws an error not classified
\* as retryable is the last one of the run: the error is thrown to the
\* caller and the operation is not invoked again.
C16_NonRetryableNotRetried ==
    \A i \in 1..Len(retryLoop.errors) :
        retryLoop.errors[i].kind = "fatal"
            => /\ i = retryLoop.invocations
               /\ retryLoop.pc = "threw"
               /\ retryLoop.thrown = retryLoop.errors[i]

\* C17: the delay slept after the n-th failed attempt, when the error
\* carries no retry-after hint, lies between 0.8 * baseDelay * 2^(n-1) and
\* min(maxDelay, 1.2 * baseDelay * 2^(n-1)), for every adapter and every
\* kind of retried error.
C17_DelayWithinBackoffBand ==
    \A n \in 1..Len(retryLoop.delays) :
        retryLoop.errors[n].retryAfter = NoHint
            => /\ 10 * retryLoop.delays[n] >= 8 * backoffDelay(n)
               /\ 10 * retryLoop.delays[n] <= 12 * backoffDelay(n)
               /\ retryLoop.delays[n] <= MaxDelay

\* C18: the delay slept by the OpenAI adapter after a 429 error that
\* carries a retry-after hint is the larger of the hint and the exponential
\* backoff of that attempt.
C18_HintNeverShortensBackoff ==
    \A n \in 1..Len(retryLoop.delays) :
        (retryLoop.dep = "openai" /\ retryLoop.errors[n].kind = "throttled"
           /\ retryLoop.errors[n].retryAfter # NoHint)
            => retryLoop.delays[n]
                   = Max(retryLoop.errors[n].retryAfter * 1000, backoffDelay(n))

(***************************************************************************)
(* Claims about the ranking (under SpecRank)                               *)
(***************************************************************************)
\* a may stand right before b in a ranking: the five keys in their order
RankOrdered(a, b) ==
    LET na == a.scoreBreakdown.nicheAlignment
        nb == b.scoreBreakdown.nicheAlignment
        sa == a.scoreBreakdown.semanticSimilarity
        sb == b.scoreBreakdown.semanticSimilarity
        ea == a.creator.heartCount * OrOne(b.creator.followerCount)
        eb == b.creator.heartCount * OrOne(a.creator.followerCount)
    IN  \/ na > nb
        \/ /\ na = nb
           /\ \/ sa - sb > 100
              \/ /\ Abs(sa - sb) <= 100
                 /\ \/ a.matchScore - b.matchScore > 10
                    \/ /\ Abs(a.matchScore - b.matchScore) <= 10
                       /\ \/ ea > eb
                          \/ /\ ea = eb
                             /\ a.creator.followerCount >= b.creator.followerCount

C20_ComparisonIsConsistent ==
    ranking.pc = "ranked"
        => \A a, b, c \in SeqToSet(ranking.matches) :
               /\ (compareMatches(a, b) < 0) = (compareMatches(b, a) > 0)
               /\ (compareMatches(a, b) = 0) = (compareMatches(b, a) = 0)
               /\ (compareMatches(a, b) < 0 /\ compareMatches(b, c) < 0)
                      => compareMatches(a, c) < 0

\* C21: the matches a response carries are in non-increasing order of
\* matchScore: every match has a matchScore at least as high as the match
\* after it.
C21_MatchScoreNonIncreasing ==
    ranking.pc = "ranked"
        => \A i \in 1..(Len(ranking.top) - 1) :
               ranking.top[i].matchScore >= ranking.top[i + 1].matchScore

(***************************************************************************)
(* Claims about the scoring (under SpecScore)                              *)
(***************************************************************************)
\* C22: calculateMatch() returns a matchScore between 0 and 1 and a
\* nicheBoost between 0 and 1, for semantic scores between -1 and 1, also
\* when a requested niche is repeated or optional fields are absent.
C22_ScoreAndBoostInUnitInterval ==
    scoring.pc = "scored"
        => /\ scoring.match.matchScore \in 0..Scale
           /\ scoring.match.scoreBreakdown.nicheBoost \in 0..Scale

\* a creator who has the niche requested twice, scored at semantic score 1:
\* the boost is 1 and the weighted score, above 1, is capped
C22_Witness ==
    /\ scoring.pc = "scored"
    /\ scoring.assignment.creatorNiches = <<"DIY", "diy">>
    /\ scoring.creator.id = "md"
    /\ scoring.semanticScore = 100
    /\ scoring.match.scoreBreakdown.nicheBoost = Scale
    /\ scoring.match.matchScore = Scale

\* C23: audienceMatch is 1 when the assignment has a target locale that
\* equals the creator's region without regard to letter case, and 0
\* otherwise, whatever the demographic and the tone are.
C23_AudienceMatchIsBinary ==
    scoring.pc = "scored"
        => scoring.audienceMatch =
               IF /\ scoring.assignment.hasTargetAudience
                  /\ scoring.assignment.locale # ""
                  /\ toLowerCase(scoring.assignment.locale)
                         = toLowerCase(scoring.creator.region)
               THEN Scale ELSE 0

\* C24: nicheAlignment is the number of distinct lower-cased requested
\* niches that are among the creator's primary and secondary niches: a
\* niche requested twice counts once.
C24_NicheAlignmentCountsDistinct ==
    scoring.pc = "scored"
        => scoring.nicheAlignment =
               Cardinality({toLowerCase(n) : n \in SeqToSet(scoring.assignment.creatorNiches)}
                           \cap {toLowerCase(n) :
                                    n \in SeqToSet(scoring.creator.primaryNiches)
                                          \cup SeqToSet(scoring.creator.secondaryNiches)})

\* C25: calculateNicheAlignment() returns a number between 0 and 1.
C25_NicheAlignmentInUnitInterval ==
    scoring.pc = "scored"
        => scoring.nicheAlignment >= 0 /\ scoring.nicheAlignment <= 1

(***************************************************************************)
(* Claims about the catalog cache (under SpecCache)                        *)
(***************************************************************************)
\* the step in which request p calls loadCreators(): the vector search is
\* over and the handler goes on to the file read, to the completion call or
\* to its response
CallsLoadCreators(p) ==
    /\ proc[p].kind = "match"
    /\ proc[p].stage \in {"embed", "query"}
    /\ proc'[p].stage \in {"load", "complete", "done"}

\* C28: a request that calls loadCreators() while a snapshot exists that is
\* less than CACHE_TTL (300000 ms) old is served that snapshot, without a
\* read of creators.json and without a change of the cache; a request that
\* calls it when the snapshot is CACHE_TTL old or older, or when there is
\* none, starts a read of creators.json.
C28_CacheServedUntilTTL ==
    [][\A p \in Procs :
          CallsLoadCreators(p)
              => IF creatorCache.present /\ now - lastCacheUpdate < CACHE_TTL
                 THEN /\ proc'[p].pc # "reading"
                      /\ proc'[p].catalog = creatorCache
                      /\ UNCHANGED <<creatorCache, lastCacheUpdate>>
                 ELSE /\ proc'[p].pc = "reading"
                      /\ proc'[p].readStartedAt = now]_vars

\* a request reads creators.json at the moment the snapshot, which holds
\* what the file held before it was replaced, is exactly CACHE_TTL old
C28_Witness ==
    \E p \in Procs :
        /\ proc[p].kind = "match" /\ proc[p].pc = "reading"
        /\ creatorCache.present
        /\ creatorCache.creators # env.creatorsFile
        /\ proc[p].readStartedAt = now
        /\ now - lastCacheUpdate = CACHE_TTL

\* C29: a refresh, the read of creators.json a request started because the
\* snapshot was CACHE_TTL old or older, leaves the snapshot in place when it
\* fails and does not make the request fail: the request is not answered
\* 500.
C29_FailedRefreshServesSnapshot ==
    [][\A p \in Procs :
          (/\ proc[p].kind = "match" /\ proc[p].pc = "reading"
           /\ creatorCache.present
           /\ proc[p].readStartedAt - lastCacheUpdate >= CACHE_TTL)
              => /\ creatorCache'.present
                 /\ ~(proc'[p].pc = "responded" /\ proc'[p].response.status = 500)]_vars

\* C30: while a snapshot exists, at most one request is reading
\* creators.json: a request that arrives during a refresh starts no second
\* read.
C30_SingleRefresher ==
    creatorCache.present
        => Cardinality({p \in Procs : proc[p].kind = "match" /\ proc[p].pc = "reading"}) <= 1

(***************************************************************************)
(* Claims about the overall health (under SpecHealth)                      *)
(***************************************************************************)
\* every registered service has been checked at least once
AllChecked == \A d \in Deps : monitor[d] \in {"none", "healthy", "unhealthy"}

\* C26: once every registered service has been checked, the overall health
\* status is critical whenever the breaker of the vector index or of the
\* embedding provider is OPEN.
C26_OpenCriticalBreakerIsCritical ==
    (/\ AllChecked
     /\ \E d \in {"pinecone", aiProvider} : services[d].circuitBreakerState = "OPEN")
        => getOverallHealth(monitor) = "critical"

\* C27: when the last checks found the breaker of the completion provider
\* OPEN and the vector index healthy, and the breakers still are so, the
\* overall health status is degraded.
C27_OpenCompletionBreakerIsDegraded ==
    (/\ services[aiProvider].circuitBreakerState = "OPEN"
     /\ services["pinecone"].circuitBreakerState = "CLOSED"
     /\ monitor[aiProvider] = "unhealthy"
     /\ monitor["pinecone"] = "healthy")
        => getOverallHealth(monitor) = "degraded"

(***************************************************************************)
(* Claims about the breaker and the monitor as state machines              *)
(***************************************************************************)
\* C33: in every step of every adapter the breaker keeps its state or goes
\* from CLOSED to OPEN, from OPEN to HALF_OPEN, from HALF_OPEN to CLOSED
\* or from HALF_OPEN to OPEN, and failureCount does not decrease in a step
\* taken while the breaker is OPEN.
C33_BreakerTransitions ==
    [][\A d \in Deps :
          LET from == services[d].circuitBreakerState
              to == services'[d].circuitBreakerState
          IN  /\ from # to
                    => <<from, to>> \in {<<"CLOSED", "OPEN">>, <<"OPEN", "HALF_OPEN">>,
                                        <<"HALF_OPEN", "CLOSED">>, <<"HALF_OPEN", "OPEN">>}
              /\ from = "OPEN"
                    => services'[d].failureCount >= services[d].failureCount]_vars

\* C34: a step of a health check (the check's call of getIndexStats()
\* included) leaves circuitBreakerState, failureCount and lastFailureTime
\* of every adapter as they were.
C34_HealthCheckLeavesBreakers ==
    [][\A p \in Procs :
          (proc[p].kind = "health" /\ proc'[p] # proc[p])
              => \A d \in Deps :
                     /\ services'[d].circuitBreakerState = services[d].circuitBreakerState
                     /\ services'[d].failureCount = services[d].failureCount
                     /\ services'[d].lastFailureTime = services[d].lastFailureTime]_vars

(***************************************************************************)
(* Claims about the service manager                                        *)
(***************************************************************************)
\* C38: when the calls of initialize() and gracefulShutdown() were made one
\* after the other and the most recent one is an initialize() that has
\* resolved, isInitialized() returns true and the health monitor is running.
C38_InitializeAfterShutdown ==
    (/\ manager.lastCall # 0
     /\ ~manager.overlapped
     /\ manager.calls[manager.lastCall] = [op |-> "initialize", pc |-> "resolved"])
        => (isInitialized(manager) /\ manager.isMonitoring)

(***************************************************************************)
(* Claims about the creation of the index                                  *)
(***************************************************************************)
\* C31: over the calls that find the adapter not connected, createIndex is
\* sent at most once when no createIndex request failed, and no caller's
\* initialize() throws because the index already exists.
C31_IndexCreatedOnce ==
    /\ (\A c \in Callers : indexing.calls[c].error # "createIndex failed")
            => indexing.created <= 1
    /\ \A c \in Callers : indexing.calls[c].error # "ALREADY_EXISTS"

(***************************************************************************)
(* Claims about the embedding requests                                     *)
(***************************************************************************)
\* C32: at no time has Bedrock more than concurrencyLimit = 3 embedding
\* requests of calls that are still running which it has not answered,
\* whichever callers of generateEmbedding and generateEmbeddings sent them.
C32_EmbeddingsInFlight ==
    embedding.inFlight - embedding.orphans <= concurrencyLimit

(***************************************************************************)
(* Claims about the connection pool                                        *)
(***************************************************************************)
\* C35: no two callers hold the same connection at once: no two acquire()
\* promises are resolved with one connection that neither caller has
\* released.
C35_OneHolder ==
    \A a, b \in Acquirers :
        (/\ a # b
         /\ connPool.promise[a] = "holding"
         /\ connPool.promise[b] = "holding")
            => connPool.got[a] # connPool.got[b]

\* C36: an acquire() that timed out is in the waiting queue no longer, and
\* no connection is given to a waiter whose acquire() has timed out.
C36_TimedOutWaiterRemoved ==
    \A a \in Acquirers :
        connPool.promise[a] = "timedOut"
            => /\ \A i \in DOMAIN connPool.waitingQueue : connPool.waitingQueue[i] # a
               /\ connPool.got[a] = 0

\* the second half of C36 alone: a connection marked in use for a waiter
\* that had timed out
TimedOutWaiterServed ==
    \E a \in Acquirers :
        /\ connPool.promise[a] = "timedOut"
        /\ connPool.got[a] # 0
        /\ \E i \in DOMAIN connPool.pool :
               connPool.pool[i].conn = connPool.got[a] /\ connPool.pool[i].inUse

\* C37: the pool never holds more than maxConnections connections.
C37_PoolWithinMax == Len(connPool.pool) <= maxConnections

====
